---- MODULE Spec2Model ----
(***************************************************************************)
(* Filter / validation compiler of snippets_repo.                          *)
(*                                                                         *)
(* Three filter compilers (advanced_filter_validator.FilterExpression,     *)
(* class_based_filter.FilterParser, build_ast.build_expression), the       *)
(* validation rules, QueryBuilder and Validator are pure functions over    *)
(* JSON-like input.  Each is an operator below; the state machine draws an *)
(* input at Init and applies one library call per step.                    *)
(*                                                                         *)
(* Python strings that the code inspects character by character            *)
(* (str.upper, iteration of a str) are sequences of one-character strings. *)
(* Python exceptions are values Err(type, msg) that every caller           *)
(* propagates, as an uncaught exception does.                              *)
(***************************************************************************)
EXTENDS Integers, Sequences, FiniteSets, TLC

(* ---------------------------------------------------------------------- *)
(* Python values                                                          *)
(* ---------------------------------------------------------------------- *)
Str(s) == [k |-> "str", v |-> s]
Num(n) == [k |-> "num", v |-> n]
Lst(xs) == [k |-> "list", v |-> xs]
Bool(b) == [k |-> "bool", v |-> b]
Dict(items) == [k |-> "dict", v |-> items]
None == [k |-> "none", v |-> 0]
\* a reference to the list object numbered id: the value of a JSON leaf that the
\* caller can still change in place
Ref(id) == [k |-> "ref", v |-> id]

Err(type, msg) == [error |-> type, msg |-> msg]
IsErr(r) == "error" \in DOMAIN r

HasErr(rs) == \E i \in DOMAIN rs : IsErr(rs[i])
\* the exception a comprehension over rs raises: the first one in order
FirstErr(rs) == rs[CHOOSE i \in DOMAIN rs : IsErr(rs[i]) /\ \A j \in 1..(i - 1) : ~IsErr(rs[j])]

\* dict.get(key) with the default None
Get(n, key) == IF key \in DOMAIN n THEN n[key] ELSE None

\* a JSON object (a dict) is a record of its keys; any other value is tagged
IsDict(n) == "k" \notin DOMAIN n
\* sub in s, for two strings
Contains(s, sub) == \E i \in 1..(Len(s) - Len(sub) + 1) : SubSeq(s, i, i + Len(sub) - 1) = sub
S_field == <<"f", "i", "e", "l", "d">>
\* `"field" in n` for n a str or a list: a substring test, a membership test
FieldIn(n) ==
    IF n.k = "str" THEN Contains(n.v, S_field)
    ELSE \E i \in DOMAIN n.v : IsDict(n.v[i]) = FALSE /\ n.v[i].k = "str" /\ n.v[i].v = S_field
\* what a parser raises on a node n that is not a dict: `"field" in n` fails
\* unless n is a container, then n["field"] does, or the call of `getter`
NotADict(n, getter) ==
    IF n.k \notin {"str", "list"} THEN Err("TypeError", "argument is not iterable")
    ELSE IF FieldIn(n) THEN Err("TypeError", "indices must be integers")
    ELSE getter

LowerChars == <<"a", "d", "e", "i", "k", "l", "n", "o", "r", "x">>
UpperChars == <<"A", "D", "E", "I", "K", "L", "N", "O", "R", "X">>
UpperChar(c) ==
    IF \E i \in DOMAIN LowerChars : LowerChars[i] = c
    THEN UpperChars[CHOOSE i \in DOMAIN LowerChars : LowerChars[i] = c]
    ELSE c
\* str.upper() that leaves every character as it is
Upper_Identity(s) == s
\* str.upper()
Upper(s) == [i \in DOMAIN s |-> UpperChar(s[i])]

IsStr(v) == v.k = "str"
\* isinstance(v, Iterable)
IsIterable(v) == v.k \in {"str", "list", "dict"}
\* the elements iteration over v yields: characters of a str, items of a
\* list, keys of a dict
Iterate(v) ==
    CASE v.k = "str" -> [i \in DOMAIN v.v |-> Str(<<v.v[i]>>)]
      [] v.k = "list" -> v.v
      [] v.k = "dict" -> [i \in DOMAIN v.v |-> v.v[i][1]]
\* truthiness of a value (`not x` is ~Truthy(x))
Truthy(v) ==
    CASE v.k = "none" -> FALSE
      [] v.k = "bool" -> v.v
      [] v.k = "num" -> v.v # 0
      [] OTHER -> v.v # <<>>

DigitChars == <<"0", "1", "2", "3", "4", "5", "6", "7", "8", "9">>
RECURSIVE Digits(_)
Digits(n) == IF n < 10 THEN <<DigitChars[n + 1]>> ELSE Digits(n \div 10) \o <<DigitChars[(n % 10) + 1]>>

RECURSIVE PyRepr(_)
RECURSIVE JoinRepr(_)
\* ", ".join(repr(x) for x in xs)
JoinRepr(xs) ==
    IF xs = <<>> THEN <<>>
    ELSE IF Len(xs) = 1 THEN PyRepr(xs[1])
    ELSE PyRepr(xs[1]) \o <<",", " ">> \o JoinRepr(Tail(xs))
RECURSIVE JoinItems(_)
JoinItems(xs) ==
    IF xs = <<>> THEN <<>>
    ELSE LET one == PyRepr(xs[1][1]) \o <<":", " ">> \o PyRepr(xs[1][2])
         IN IF Len(xs) = 1 THEN one ELSE one \o <<",", " ">> \o JoinItems(Tail(xs))
\* repr(v)
PyRepr(v) ==
    CASE v.k = "str" -> <<"'">> \o v.v \o <<"'">>
      [] v.k = "num" -> IF v.v < 0 THEN <<"-">> \o Digits(0 - v.v) ELSE Digits(v.v)
      [] v.k = "none" -> <<"N", "o", "n", "e">>
      [] v.k = "bool" -> IF v.v THEN <<"T", "r", "u", "e">> ELSE <<"F", "a", "l", "s", "e">>
      [] v.k = "list" -> <<"[">> \o JoinRepr(v.v) \o <<"]">>
      [] v.k = "dict" -> <<"{">> \o JoinItems(v.v) \o <<"}">>
\* str(v)
PyStr(v) == IF v.k = "str" THEN v.v ELSE PyRepr(v)

(* ---------------------------------------------------------------------- *)
(* Expression trees built through the sqlglot collaborator                *)
(* ---------------------------------------------------------------------- *)
\* exp.Literal.string(v): the text of v, flagged as a string
LiteralString(v) == [op |-> "Literal", this |-> PyStr(v), is_string |-> TRUE]
\* exp.Literal.number(v): str(v), flagged as a number, whatever v is
LiteralNumber(v) == [op |-> "Literal", this |-> PyStr(v), is_string |-> FALSE]
Binary(kind, l, r) == [op |-> kind, this |-> l, expression |-> r]
InExpr(col, exprs) == [op |-> "In", this |-> col, expressions |-> exprs]
Paren(e) == [op |-> "Paren", this |-> e]
\* exp.true()
TrueExpr == [op |-> "Boolean", this |-> TRUE]
NullExpr == [op |-> "Null"]
\* exp.column(name, table=table); table "" when none is given
Column(name, table) == [op |-> "Column", this |-> name, table |-> table]

IsConnector(e) == e.op \in {"And", "Or"}
\* sqlglot wraps a connector operand of a connector in parentheses
Wrap(e) == IF IsConnector(e) THEN Paren(e) ELSE e
RECURSIVE FoldConnector(_, _, _)
FoldConnector(kind, this, rest) ==
    IF rest = <<>> THEN this
    ELSE FoldConnector(kind, Binary(kind, this, Wrap(Head(rest))), Tail(rest))
\* exp.and_(*es) / exp.or_(*es): `this, *rest = es` fails on no operand; one
\* operand is returned as it is; more are folded left to right
Combine(kind, es) ==
    IF es = <<>> THEN Err("ValueError", "not enough values to unpack")
    ELSE IF Len(es) = 1 THEN es[1]
    ELSE FoldConnector(kind, Wrap(es[1]), Tail(es))
and_(es) == Combine("And", es)
or_(es) == Combine("Or", es)

S_AND == <<"A", "N", "D">>
S_OR == <<"O", "R">>
S_LIKE == <<"L", "I", "K", "E">>
S_IN == <<"I", "N">>

(* ---------------------------------------------------------------------- *)
(* advanced_filter_validator: Dataset, SimpleRule, GroupRule,             *)
(* FilterExpression                                                       *)
(* ---------------------------------------------------------------------- *)
\* Dataset.column_expr that leaves the table out
column_expr_Unqualified(table, column) == Column(column, "")
\* Dataset.column_expr
column_expr(table, column) == Column(column, table)

SimpleRule(field, operator, value) ==
    [cls |-> "SimpleRule", field |-> field, operator |-> operator, value |-> value]

\* SimpleRule._to_literal
SimpleRule_to_literal(v) == IF IsStr(v) THEN LiteralString(v) ELSE LiteralNumber(v)

\* SimpleRule.expression
SimpleRule_expression(self, table) ==
    LET col == column_expr(table, self.field)
        val == self.value
    IN  IF ~IsStr(self.operator) THEN Err("AttributeError", "upper")
        ELSE LET op == Upper(self.operator.v) IN
        CASE op \in {<<"=">>, <<"=", "=">>} -> Binary("EQ", col, SimpleRule_to_literal(val))
          [] op \in {<<"!", "=">>, <<"<", ">">>} -> Binary("NEQ", col, SimpleRule_to_literal(val))
          [] op = <<">">> -> Binary("GT", col, SimpleRule_to_literal(val))
          [] op = <<"<">> -> Binary("LT", col, SimpleRule_to_literal(val))
          [] op = <<">", "=">> -> Binary("GTE", col, SimpleRule_to_literal(val))
          [] op = <<"<", "=">> -> Binary("LTE", col, SimpleRule_to_literal(val))
          [] op = S_LIKE -> Binary("Like", col, SimpleRule_to_literal(val))
          [] op = S_IN ->
                IF ~IsIterable(val) \/ IsStr(val)
                THEN Err("ValueError", "IN operator requires a sequence of values")
                ELSE InExpr(col, [i \in DOMAIN Iterate(val) |-> SimpleRule_to_literal(Iterate(val)[i])])
          [] OTHER -> Err("ValueError", "Unsupported operator")

\* GroupRule.__init__
GroupRule(combinator, children) ==
    IF ~IsStr(combinator) THEN Err("AttributeError", "upper")
    ELSE IF Upper(combinator.v) \notin {S_AND, S_OR}
    THEN Err("ValueError", "combinator must be 'AND' or 'OR'")
    ELSE [cls |-> "GroupRule", combinator |-> Upper(combinator.v), children |-> children]

RECURSIVE FilterNode_expression(_, _)
\* GroupRule.expression without the empty-group case
GroupRule_expression_NoIdentity(self, table) ==
    LET child_exprs == [i \in DOMAIN self.children |-> FilterNode_expression(self.children[i], table)]
    IN  IF HasErr(child_exprs) THEN FirstErr(child_exprs)
        ELSE IF self.combinator = S_AND THEN and_(child_exprs)
        ELSE or_(child_exprs)
\* GroupRule.expression that folds its children last to first
GroupRule_expression_Reversed(self, table) ==
    LET child_exprs == [i \in DOMAIN self.children |->
                           FilterNode_expression(self.children[Len(self.children) + 1 - i], table)]
    IN  IF HasErr(child_exprs) THEN FirstErr(child_exprs)
        ELSE IF child_exprs = <<>> THEN TrueExpr
        ELSE IF self.combinator = S_AND THEN and_(child_exprs)
        ELSE or_(child_exprs)
\* GroupRule.expression
GroupRule_expression(self, table) ==
    LET child_exprs == [i \in DOMAIN self.children |-> FilterNode_expression(self.children[i], table)]
    IN  IF HasErr(child_exprs) THEN FirstErr(child_exprs)
        ELSE IF child_exprs = <<>> THEN TrueExpr
        ELSE IF self.combinator = S_AND THEN and_(child_exprs)
        ELSE or_(child_exprs)

\* node.expression(dataset), dispatched on the node's class
FilterNode_expression(node, table) ==
    IF node.cls = "SimpleRule" THEN SimpleRule_expression(node, table)
    ELSE GroupRule_expression(node, table)

RECURSIVE from_json_parse(_)
\* the nested parse that takes a missing combinator for AND
from_json_parse_DefaultsAnd(n) ==
    IF ~IsDict(n)
    THEN NotADict(n, Err("AttributeError", "get"))
    ELSE IF "field" \in DOMAIN n
    THEN IF "operator" \notin DOMAIN n THEN Err("KeyError", "operator")
         ELSE SimpleRule(n.field, n.operator, Get(n, "value"))
    ELSE LET combinator == IF "combinator" \in DOMAIN n THEN n.combinator ELSE Str(S_AND)
             children_defs == IF "rules" \in DOMAIN n THEN n.rules ELSE Lst(<<>>) IN
         IF ~IsIterable(children_defs) THEN Err("TypeError", "object is not iterable")
         ELSE LET children == [i \in DOMAIN Iterate(children_defs) |->
                                  from_json_parse(Iterate(children_defs)[i])]
              IN  IF HasErr(children) THEN FirstErr(children)
                  ELSE GroupRule(combinator, children)
\* the nested parse of FilterExpression.from_json
from_json_parse(n) ==
    IF ~IsDict(n)
    THEN NotADict(n, Err("AttributeError", "get"))
    ELSE IF "field" \in DOMAIN n
    THEN IF "operator" \notin DOMAIN n THEN Err("KeyError", "operator")
         ELSE SimpleRule(n.field, n.operator, Get(n, "value"))
    ELSE LET combinator == Get(n, "combinator") IN
         IF combinator = None THEN Err("ValueError", "Group rule missing 'combinator'")
         ELSE LET children_defs == IF "rules" \in DOMAIN n THEN n.rules ELSE Lst(<<>>) IN
              IF ~IsIterable(children_defs) THEN Err("TypeError", "object is not iterable")
              ELSE LET children == [i \in DOMAIN Iterate(children_defs) |->
                                       from_json_parse(Iterate(children_defs)[i])]
                   IN  IF HasErr(children) THEN FirstErr(children)
                       ELSE GroupRule(combinator, children)

\* FilterExpression.from_json: a FilterExpression holding the root
from_json(node) ==
    LET root == from_json_parse(node)
    IN  IF IsErr(root) THEN root ELSE [cls |-> "FilterExpression", root |-> root]

\* FilterExpression.expression
FilterExpression_expression(self, table) == FilterNode_expression(self.root, table)

\* the characters of a class's __name__
ClassName(cls) ==
    CASE cls = "SimpleRule" -> <<"S", "i", "m", "p", "l", "e", "R", "u", "l", "e">>
      [] cls = "EqualsFilter" -> <<"E", "q", "u", "a", "l", "s", "F", "i", "l", "t", "e", "r">>
      [] cls = "NotEqualsFilter" -> <<"N", "o", "t", "E", "q", "u", "a", "l", "s", "F", "i", "l", "t", "e", "r">>
      [] cls = "GreaterThanFilter" -> <<"G", "r", "e", "a", "t", "e", "r", "T", "h", "a", "n", "F", "i", "l", "t", "e", "r">>
      [] cls = "LessThanFilter" -> <<"L", "e", "s", "s", "T", "h", "a", "n", "F", "i", "l", "t", "e", "r">>
      [] cls = "GreaterOrEqualFilter" -> <<"G", "r", "e", "a", "t", "e", "r", "O", "r", "E", "q", "u", "a", "l", "F", "i", "l", "t", "e", "r">>
      [] cls = "LessOrEqualFilter" -> <<"L", "e", "s", "s", "O", "r", "E", "q", "u", "a", "l", "F", "i", "l", "t", "e", "r">>
      [] cls = "LikeFilter" -> <<"L", "i", "k", "e", "F", "i", "l", "t", "e", "r">>
      [] cls = "InFilter" -> <<"I", "n", "F", "i", "l", "t", "e", "r">>

RECURSIVE Join(_)
\* ", ".join(parts)
Join(parts) ==
    IF parts = <<>> THEN <<>>
    ELSE IF Len(parts) = 1 THEN parts[1]
    ELSE parts[1] \o <<",", " ">> \o Join(Tail(parts))

\* ExplainableMixin.explain of a SimpleRule: the class name and the
\* attributes of __dict__, in the order __init__ assigns them
ExplainableMixin_explain(self) ==
    LET params == << <<"f", "i", "e", "l", "d", "=">> \o PyRepr(Str(<<self.field>>)),
                     <<"o", "p", "e", "r", "a", "t", "o", "r", "=">> \o PyRepr(self.operator),
                     <<"v", "a", "l", "u", "e", "=">> \o PyRepr(self.value) >>
    IN  ClassName(self.cls) \o <<"(">> \o Join(params) \o <<")">>

RECURSIVE FilterNode_explain(_)
\* GroupRule.explain with the children's explanations in reverse order
GroupRule_explain_Reversed(self) ==
    self.combinator \o <<"(">>
        \o Join([i \in DOMAIN self.children |->
                    FilterNode_explain(self.children[Len(self.children) + 1 - i])])
        \o <<")">>
\* GroupRule.explain
GroupRule_explain(self) ==
    self.combinator \o <<"(">>
        \o Join([i \in DOMAIN self.children |-> FilterNode_explain(self.children[i])])
        \o <<")">>
\* node.explain(), dispatched on the node's class
FilterNode_explain(node) ==
    IF node.cls = "SimpleRule" THEN ExplainableMixin_explain(node)
    ELSE GroupRule_explain(node)

\* FilterExpression.explain
FilterExpression_explain(self) == FilterNode_explain(self.root)

(* ---------------------------------------------------------------------- *)
(* class_based_filter: one class per operator, LogicalGroup, FilterParser *)
(* ---------------------------------------------------------------------- *)
\* SingleValueMixin.__init__ for the class named cls
SingleValueRule(cls, field, value) == [cls |-> cls, field |-> field, value |-> value]

\* ListValueMixin.__init__ of InFilter: values is stored as tuple(values)
InFilter(field, values) ==
    IF ~IsIterable(values) THEN Err("TypeError", "object is not iterable")
    ELSE [cls |-> "InFilter", field |-> field, values |-> Iterate(values)]

\* SingleValueMixin._literal
SingleValueMixin_literal(v) == IF IsStr(v) THEN LiteralString(v) ELSE LiteralNumber(v)

\* ListValueMixin._literal_list
ListValueMixin_literal_list(self) ==
    [i \in DOMAIN self.values |->
        IF IsStr(self.values[i]) THEN LiteralString(self.values[i]) ELSE LiteralNumber(self.values[i])]

EqualsFilter_expression(self, table) ==
    Binary("EQ", column_expr(table, self.field), SingleValueMixin_literal(self.value))
NotEqualsFilter_expression(self, table) ==
    Binary("NEQ", column_expr(table, self.field), SingleValueMixin_literal(self.value))
GreaterThanFilter_expression(self, table) ==
    Binary("GT", column_expr(table, self.field), SingleValueMixin_literal(self.value))
LessThanFilter_expression(self, table) ==
    Binary("LT", column_expr(table, self.field), SingleValueMixin_literal(self.value))
GreaterOrEqualFilter_expression(self, table) ==
    Binary("GTE", column_expr(table, self.field), SingleValueMixin_literal(self.value))
LessOrEqualFilter_expression(self, table) ==
    Binary("LTE", column_expr(table, self.field), SingleValueMixin_literal(self.value))
LikeFilter_expression(self, table) ==
    Binary("Like", column_expr(table, self.field), SingleValueMixin_literal(self.value))
InFilter_expression(self, table) ==
    InExpr(column_expr(table, self.field), ListValueMixin_literal_list(self))

\* LogicalGroup.__init__
LogicalGroup(combinator, children) ==
    IF ~IsStr(combinator) THEN Err("AttributeError", "upper")
    ELSE IF Upper(combinator.v) \notin {S_AND, S_OR}
    THEN Err("ValueError", "combinator must be 'AND' or 'OR'")
    ELSE [cls |-> "LogicalGroup", field |-> "", combinator |-> Upper(combinator.v), children |-> children]

RECURSIVE BaseFilterRule_expression(_, _)
\* LogicalGroup.expression that parenthesises a single child
LogicalGroup_expression_WrapsSingle(self, table) ==
    LET child_exprs == [i \in DOMAIN self.children |-> BaseFilterRule_expression(self.children[i], table)]
    IN  IF HasErr(child_exprs) THEN FirstErr(child_exprs)
        ELSE IF child_exprs = <<>> THEN TrueExpr
        ELSE IF Len(child_exprs) = 1 THEN Paren(child_exprs[1])
        ELSE IF self.combinator = S_AND THEN and_(child_exprs) ELSE or_(child_exprs)
\* LogicalGroup.expression
LogicalGroup_expression(self, table) ==
    LET child_exprs == [i \in DOMAIN self.children |-> BaseFilterRule_expression(self.children[i], table)]
    IN  IF HasErr(child_exprs) THEN FirstErr(child_exprs)
        ELSE IF child_exprs = <<>> THEN TrueExpr
        ELSE IF self.combinator = S_AND THEN and_(child_exprs) ELSE or_(child_exprs)

\* repr(t) of a tuple t
TupleRepr(t) ==
    IF Len(t) = 1 THEN <<"(">> \o PyRepr(t[1]) \o <<",", ")">>
    ELSE <<"(">> \o JoinRepr(t) \o <<")">>

\* BaseFilterRule.explain
BaseFilterRule_explain(self) ==
    ClassName(self.cls) \o <<"(", "f", "i", "e", "l", "d", "=">> \o PyRepr(Str(<<self.field>>)) \o <<")">>

\* InFilter.explain
InFilter_explain(self) ==
    <<"I", "n", "F", "i", "l", "t", "e", "r", "(", "f", "i", "e", "l", "d", "=">> \o PyRepr(Str(<<self.field>>))
        \o <<",", " ", "v", "a", "l", "u", "e", "s", "=">> \o TupleRepr(self.values) \o <<")">>

RECURSIVE FilterRule_explain(_)
\* LogicalGroup.explain
LogicalGroup_explain(self) ==
    self.combinator \o <<"G", "r", "o", "u", "p", "(">>
        \o Join([i \in DOMAIN self.children |-> FilterRule_explain(self.children[i])])
        \o <<")">>
\* rule.explain(), dispatched on the rule's class
FilterRule_explain(rule) ==
    CASE rule.cls = "LogicalGroup" -> LogicalGroup_explain(rule)
      [] rule.cls = "InFilter" -> InFilter_explain(rule)
      [] OTHER -> BaseFilterRule_explain(rule)

\* rule.expression(dataset), dispatched on the rule's class
BaseFilterRule_expression(rule, table) ==
    CASE rule.cls = "EqualsFilter" -> EqualsFilter_expression(rule, table)
      [] rule.cls = "NotEqualsFilter" -> NotEqualsFilter_expression(rule, table)
      [] rule.cls = "GreaterThanFilter" -> GreaterThanFilter_expression(rule, table)
      [] rule.cls = "LessThanFilter" -> LessThanFilter_expression(rule, table)
      [] rule.cls = "GreaterOrEqualFilter" -> GreaterOrEqualFilter_expression(rule, table)
      [] rule.cls = "LessOrEqualFilter" -> LessOrEqualFilter_expression(rule, table)
      [] rule.cls = "LikeFilter" -> LikeFilter_expression(rule, table)
      [] rule.cls = "InFilter" -> InFilter_expression(rule, table)
      [] rule.cls = "LogicalGroup" -> LogicalGroup_expression(rule, table)

\* FilterParser.OPERATOR_MAP.get(op); "" stands for the None of a missing key
OPERATOR_MAP(op) ==
    CASE op = <<"=">> -> "EqualsFilter"
      [] op = <<"=", "=">> -> "EqualsFilter"
      [] op = <<"!", "=">> -> "NotEqualsFilter"
      [] op = <<"<", ">">> -> "NotEqualsFilter"
      [] op = <<">">> -> "GreaterThanFilter"
      [] op = <<"<">> -> "LessThanFilter"
      [] op = <<">", "=">> -> "GreaterOrEqualFilter"
      [] op = <<"<", "=">> -> "LessOrEqualFilter"
      [] op = S_LIKE -> "LikeFilter"
      [] op = S_IN -> "InFilter"
      [] OTHER -> ""

RECURSIVE FilterParser_parse(_)
\* FilterParser.parse that takes a node with `combinator` for a group, whether
\* or not it has `field`
FilterParser_parse_GroupFirst(node) ==
    IF ~IsDict(node)
    THEN NotADict(node, Err("AttributeError", "get"))
    ELSE IF "field" \in DOMAIN node /\ "combinator" \notin DOMAIN node
    THEN IF "operator" \notin DOMAIN node THEN Err("KeyError", "operator")
         ELSE IF ~IsStr(node.operator) THEN Err("AttributeError", "upper")
         ELSE LET op == Upper(node.operator.v)
                  value == Get(node, "value")
                  rule_cls == OPERATOR_MAP(op)
              IN  IF rule_cls = "" THEN Err("ValueError", "Unsupported operator")
                  ELSE IF op = S_IN /\ ~IsIterable(value)
                  THEN Err("ValueError", "IN operator requires a list of values")
                  ELSE IF rule_cls = "InFilter" THEN InFilter(node.field, value)
                  ELSE SingleValueRule(rule_cls, node.field, value)
    ELSE LET combinator == Get(node, "combinator") IN
         IF ~Truthy(combinator) THEN Err("ValueError", "Group node missing 'combinator'")
         ELSE LET defs == IF "rules" \in DOMAIN node THEN node.rules ELSE Lst(<<>>) IN
              IF ~IsIterable(defs) THEN Err("TypeError", "object is not iterable")
              ELSE LET children == [i \in DOMAIN Iterate(defs) |-> FilterParser_parse(Iterate(defs)[i])]
                   IN  IF HasErr(children) THEN FirstErr(children)
                       ELSE LogicalGroup(combinator, children)
\* FilterParser.parse
FilterParser_parse(node) ==
    IF ~IsDict(node)
    THEN NotADict(node, Err("AttributeError", "get"))
    ELSE IF "field" \in DOMAIN node
    THEN IF "operator" \notin DOMAIN node THEN Err("KeyError", "operator")
         ELSE IF ~IsStr(node.operator) THEN Err("AttributeError", "upper")
         ELSE LET op == Upper(node.operator.v)
                  value == Get(node, "value")
                  rule_cls == OPERATOR_MAP(op)
              IN  IF rule_cls = "" THEN Err("ValueError", "Unsupported operator")
                  ELSE IF op = S_IN /\ ~IsIterable(value)
                  THEN Err("ValueError", "IN operator requires a list of values")
                  ELSE IF rule_cls = "InFilter" THEN InFilter(node.field, value)
                  ELSE SingleValueRule(rule_cls, node.field, value)
    ELSE LET combinator == Get(node, "combinator") IN
         IF ~Truthy(combinator) THEN Err("ValueError", "Group node missing 'combinator'")
         ELSE LET defs == IF "rules" \in DOMAIN node THEN node.rules ELSE Lst(<<>>) IN
              IF ~IsIterable(defs) THEN Err("TypeError", "object is not iterable")
              ELSE LET children == [i \in DOMAIN Iterate(defs) |-> FilterParser_parse(Iterate(defs)[i])]
                   IN  IF HasErr(children) THEN FirstErr(children)
                       ELSE LogicalGroup(combinator, children)

(* ---------------------------------------------------------------------- *)
(* build_ast: build_expression                                            *)
(* ---------------------------------------------------------------------- *)
\* the nested lit of build_expression
lit(v) == IF IsStr(v) THEN LiteralString(v) ELSE LiteralNumber(v)

RECURSIVE build_expression(_)
build_expression(node) ==
    IF ~IsDict(node)
    THEN NotADict(node, Err("TypeError", "indices must be integers"))
    ELSE IF "field" \in DOMAIN node
    THEN IF "operator" \notin DOMAIN node THEN Err("KeyError", "operator")
         ELSE IF ~IsStr(node.operator) THEN Err("AttributeError", "upper")
         ELSE LET operator == Upper(node.operator.v)
                  value == Get(node, "value")
                  col_expr == Column(node.field, "")
              IN  CASE operator \in {<<"=">>, <<"=", "=">>} -> Binary("EQ", col_expr, lit(value))
                    [] operator \in {<<"!", "=">>, <<"<", ">">>} -> Binary("NEQ", col_expr, lit(value))
                    [] operator = <<">">> -> Binary("GT", col_expr, lit(value))
                    [] operator = <<"<">> -> Binary("LT", col_expr, lit(value))
                    [] operator = <<">", "=">> -> Binary("GTE", col_expr, lit(value))
                    [] operator = <<"<", "=">> -> Binary("LTE", col_expr, lit(value))
                    [] operator = S_LIKE -> Binary("Like", col_expr, lit(value))
                    [] operator = S_IN ->
                          IF value.k # "list"
                          THEN Err("ValueError", "IN operator expects a list of values")
                          ELSE InExpr(col_expr, [i \in DOMAIN value.v |-> lit(value.v[i])])
                    [] OTHER -> Err("ValueError", "Unsupported operator")
    ELSE IF "combinator" \notin DOMAIN node THEN Err("KeyError", "combinator")
    ELSE IF ~IsStr(node.combinator) THEN Err("AttributeError", "upper")
    ELSE IF "rules" \notin DOMAIN node THEN Err("KeyError", "rules")
    ELSE IF ~IsIterable(node.rules) THEN Err("TypeError", "object is not iterable")
    ELSE LET combinator == Upper(node.combinator.v)
             children == [i \in DOMAIN Iterate(node.rules) |-> build_expression(Iterate(node.rules)[i])]
         IN  IF HasErr(children) THEN FirstErr(children)
             ELSE IF combinator = S_AND THEN and_(children)
             ELSE IF combinator = S_OR THEN or_(children)
             ELSE Err("ValueError", "Unsupported combinator")

(* ---------------------------------------------------------------------- *)
(* Validation rules (advanced_filter_validator and dataset_validator hold *)
(* the same four classes, line for line; they are modelled once)         *)
(* ---------------------------------------------------------------------- *)
StarExpr == [op |-> "Star"]
\* exp.count(this=x, distinct=d), taken to build the COUNT node the code
\* asks the collaborator for
CountExpr(x, d) == [op |-> "Count", this |-> x, distinct |-> d]
TupleExpr(es) == [op |-> "Tuple", expressions |-> es]
\* exp.table_(name)
table_expr(table) == [op |-> "Table", this |-> table]
\* exp.select(*cols).from_(table).where(cond); rendering it to text is the
\* renderer's work
Select(cols, from, where) == [op |-> "Select", expressions |-> cols, from |-> from, where |-> where]

NotNullRule(column) == [cls |-> "NotNullRule", column |-> column]
UniqueValuesRule(columns) == [cls |-> "UniqueValuesRule", columns |-> columns]
AllowedValuesRule(column, allowed) == [cls |-> "AllowedValuesRule", column |-> column, allowed |-> allowed]
\* RangeRule.__init__ that takes any pair of bounds
RangeRule_Unchecked(column, minimum, maximum) ==
    [cls |-> "RangeRule", column |-> column, minimum |-> minimum, maximum |-> maximum]
\* RangeRule.__init__
RangeRule(column, minimum, maximum) ==
    IF minimum = None /\ maximum = None
    THEN Err("ValueError", "At least one of minimum or maximum must be provided")
    ELSE [cls |-> "RangeRule", column |-> column, minimum |-> minimum, maximum |-> maximum]

NotNullRule_expression(self, table) ==
    Binary("IsNot", column_expr(table, self.column), NullExpr)

\* UniqueValuesRule.expression that counts a tuple whatever the length
UniqueValuesRule_expression_AlwaysTuple(self, table) ==
    LET cols == [i \in DOMAIN self.columns |-> column_expr(table, self.columns[i])]
    IN  Binary("EQ", CountExpr(StarExpr, FALSE), CountExpr(TupleExpr(cols), TRUE))
\* UniqueValuesRule.expression
UniqueValuesRule_expression(self, table) ==
    LET cols == [i \in DOMAIN self.columns |-> column_expr(table, self.columns[i])]
        total_count == CountExpr(StarExpr, FALSE)
        distinct_count == IF Len(cols) = 1 THEN CountExpr(cols[1], TRUE)
                          ELSE CountExpr(TupleExpr(cols), TRUE)
    IN  Binary("EQ", total_count, distinct_count)

\* AllowedValuesRule.expression that emits each distinct value once
AllowedValuesRule_expression_Distinct(self, table) ==
    LET firsts == SelectSeq([i \in DOMAIN self.allowed |-> i],
                            LAMBDA i : \A j \in 1..(i - 1) : self.allowed[j] # self.allowed[i])
    IN  InExpr(column_expr(table, self.column),
               [n \in DOMAIN firsts |->
                   IF IsStr(self.allowed[firsts[n]]) THEN LiteralString(self.allowed[firsts[n]])
                   ELSE LiteralNumber(self.allowed[firsts[n]])])
\* AllowedValuesRule.expression
AllowedValuesRule_expression(self, table) ==
    InExpr(column_expr(table, self.column),
           [i \in DOMAIN self.allowed |->
               IF IsStr(self.allowed[i]) THEN LiteralString(self.allowed[i])
               ELSE LiteralNumber(self.allowed[i])])

\* RangeRule.expression that tests its bounds for truth, not for None
RangeRule_expression_Truthy(self, table) ==
    LET col == column_expr(table, self.column)
        lo == IF Truthy(self.minimum) THEN <<Binary("GTE", col, LiteralNumber(self.minimum))>> ELSE <<>>
        hi == IF Truthy(self.maximum) THEN <<Binary("LTE", col, LiteralNumber(self.maximum))>> ELSE <<>>
        parts == lo \o hi
    IN  IF Len(parts) > 1 THEN and_(parts)
        ELSE IF parts = <<>> THEN Err("IndexError", "list index out of range")
        ELSE parts[1]
\* RangeRule.expression
RangeRule_expression(self, table) ==
    LET col == column_expr(table, self.column)
        lo == IF self.minimum # None THEN <<Binary("GTE", col, LiteralNumber(self.minimum))>> ELSE <<>>
        hi == IF self.maximum # None THEN <<Binary("LTE", col, LiteralNumber(self.maximum))>> ELSE <<>>
        parts == lo \o hi
    IN  IF Len(parts) > 1 THEN and_(parts)
        ELSE IF parts = <<>> THEN Err("IndexError", "list index out of range")
        ELSE parts[1]

\* rule.expression(dataset), dispatched on the rule's class
ValidationRule_expression(rule, table) ==
    CASE rule.cls = "NotNullRule" -> NotNullRule_expression(rule, table)
      [] rule.cls = "UniqueValuesRule" -> UniqueValuesRule_expression(rule, table)
      [] rule.cls = "AllowedValuesRule" -> AllowedValuesRule_expression(rule, table)
      [] rule.cls = "RangeRule" -> RangeRule_expression(rule, table)

\* the caller's construction of one rule from its arguments
NewRule(a) ==
    CASE a.type = "NotNull" -> NotNullRule(a.column)
      [] a.type = "Unique" -> UniqueValuesRule(a.columns)
      [] a.type = "Allowed" -> AllowedValuesRule(a.column, a.allowed)
      [] a.type = "Range" -> RangeRule(a.column, a.minimum, a.maximum)
NewRules(as) == [i \in DOMAIN as |-> NewRule(as[i])]

(* ---------------------------------------------------------------------- *)
(* QueryBuilder                                                           *)
(* ---------------------------------------------------------------------- *)
\* QueryBuilder.__init__
QueryBuilder(table, filter_expr, validation_rules) ==
    [cls |-> "QueryBuilder", dataset |-> table, filter_expr |-> filter_expr,
     validation_rules |-> validation_rules]

\* combined_condition that puts the validation rules before the filter
combined_condition_RulesFirst(self) ==
    LET filter_condition == FilterExpression_expression(self.filter_expr, self.dataset)
        rule_conditions == [i \in DOMAIN self.validation_rules |->
                               ValidationRule_expression(self.validation_rules[i], self.dataset)]
        all_conditions == rule_conditions \o <<filter_condition>>
    IN  IF IsErr(filter_condition) THEN filter_condition
        ELSE IF HasErr(rule_conditions) THEN FirstErr(rule_conditions)
        ELSE IF Len(all_conditions) > 1 THEN and_(all_conditions)
        ELSE all_conditions[1]
\* combined_condition that conjoins even a lone filter condition
combined_condition_AlwaysAnd(self) ==
    LET filter_condition == FilterExpression_expression(self.filter_expr, self.dataset)
        rule_conditions == [i \in DOMAIN self.validation_rules |->
                               ValidationRule_expression(self.validation_rules[i], self.dataset)]
    IN  IF IsErr(filter_condition) THEN filter_condition
        ELSE IF HasErr(rule_conditions) THEN FirstErr(rule_conditions)
        ELSE IF rule_conditions = <<>> THEN Binary("And", Wrap(filter_condition), TrueExpr)
        ELSE and_(<<filter_condition>> \o rule_conditions)
\* QueryBuilder.combined_condition
combined_condition(self) ==
    LET filter_condition == FilterExpression_expression(self.filter_expr, self.dataset)
        rule_conditions == [i \in DOMAIN self.validation_rules |->
                               ValidationRule_expression(self.validation_rules[i], self.dataset)]
        all_conditions == IF rule_conditions # <<>> THEN <<filter_condition>> \o rule_conditions
                          ELSE <<filter_condition>>
    IN  IF IsErr(filter_condition) THEN filter_condition
        ELSE IF HasErr(rule_conditions) THEN FirstErr(rule_conditions)
        ELSE IF Len(all_conditions) > 1 THEN and_(all_conditions)
        ELSE all_conditions[1]

RECURSIVE collect(_)
\* the nested collect of generate_sql: the fields of the SimpleRules, in
\* depth-first pre-order
RECURSIVE collect_all(_)
collect_all(nodes) == IF nodes = <<>> THEN <<>> ELSE collect(Head(nodes)) \o collect_all(Tail(nodes))
collect(node) ==
    IF node.cls = "SimpleRule" THEN <<node.field>>
    ELSE IF node.cls = "GroupRule" THEN collect_all(node.children)
    ELSE <<>>

RECURSIVE rule_columns(_)
\* the loop over the validation rules in generate_sql
rule_columns(rs) ==
    IF rs = <<>> THEN <<>>
    ELSE LET rule == Head(rs)
             one == IF rule.cls \in {"NotNullRule", "AllowedValuesRule", "RangeRule"}
                    THEN <<rule.column>> ELSE <<>>
             many == IF rule.cls = "UniqueValuesRule" THEN rule.columns ELSE <<>>
         IN  one \o many \o rule_columns(Tail(rs))

\* a de-duplication that forgets what it has seen
unique_cols_NoSeen(referenced, seen) == referenced
RECURSIVE unique_cols(_, _)
\* [c for c in referenced if not (c in seen or seen.add(c))]
unique_cols(referenced, seen) ==
    IF referenced = <<>> THEN <<>>
    ELSE IF Head(referenced) \in seen THEN unique_cols(Tail(referenced), seen)
    ELSE <<Head(referenced)>> \o unique_cols(Tail(referenced), seen \cup {Head(referenced)})

\* QueryBuilder.generate_sql, up to the rendering of the query
generate_sql(self, select_all) ==
    LET where_expr == combined_condition(self)
    IN  IF IsErr(where_expr) THEN where_expr
        ELSE IF select_all THEN Select(<<StarExpr>>, table_expr(self.dataset), where_expr)
        ELSE LET referenced == collect(self.filter_expr.root) \o rule_columns(self.validation_rules)
                 cols == unique_cols(referenced, {})
             IN  Select([i \in DOMAIN cols |-> column_expr(self.dataset, cols[i])],
                        table_expr(self.dataset), where_expr)

(* ---------------------------------------------------------------------- *)
(* dataset_validator: Validator                                           *)
(* ---------------------------------------------------------------------- *)
\* Validator.combined_expression
combined_expression(self) ==
    LET exprs == [i \in DOMAIN self.rules |-> ValidationRule_expression(self.rules[i], self.dataset)]
    IN  IF HasErr(exprs) THEN FirstErr(exprs)
        ELSE IF exprs = <<>> THEN TrueExpr
        ELSE and_(exprs)

\* Validator.generate_sql.  The comprehension that collects the columns
\* reads the name `dataset`, bound neither in the method nor in the module,
\* so its first element raises NameError
Validator_generate_sql(self, select_all) ==
    LET condition == combined_expression(self)
        singular == SelectSeq(self.rules, LAMBDA r :
                        r.cls \in {"NotNullRule", "AllowedValuesRule", "RangeRule"} /\ r.column # "")
    IN  IF IsErr(condition) THEN condition
        ELSE IF select_all THEN Select(<<StarExpr>>, table_expr(self.dataset), condition)
        ELSE IF singular # <<>> THEN Err("NameError", "name 'dataset' is not defined")
        ELSE Select(<<>>, table_expr(self.dataset), condition)

(* ---------------------------------------------------------------------- *)
(* Inputs                                                                 *)
(* ---------------------------------------------------------------------- *)
MaxNodes == 3
MaxListLen == 2
MaxRules == 2

TableName == "t"
\* the default of Dataset's `dialect` parameter
DefaultDialect == "snowflake"

Leaf(f, o, v) == [field |-> f, operator |-> Str(o), value |-> v]
Group(c, rs) == [combinator |-> Str(c), rules |-> Lst(rs)]

RECURSIVE SeqsUpTo(_, _)
\* the sequences over S of length at most n
SeqsUpTo(S, n) ==
    IF n = 0 THEN {<<>>}
    ELSE SeqsUpTo(S, n - 1) \cup {<<x>> \o r : x \in S, r \in {q \in SeqsUpTo(S, n - 1) : Len(q) = n - 1}}

OperatorSpellings ==
    { <<"=">>, <<"=", "=">>, <<"!", "=">>, <<"<", ">">>, <<">">>, <<"<">>, <<">", "=">>, <<"<", "=">>,
      S_LIKE, S_IN, <<"l", "i", "k", "e">>, <<"L", "i", "k", "e">>, <<"i", "n">>, <<"I", "n">>,
      <<"~">>, <<"=", ">">>, <<"n", "o", "t">> }
CombinatorSpellings ==
    { S_AND, S_OR, <<"a", "n", "d">>, <<"A", "n", "d">>, <<"o", "r">>, <<"o", "R">> }

ElementValues == { Num(1), Str(<<"x">>) }
ListValues == { Lst(xs) : xs \in SeqsUpTo(ElementValues, MaxListLen) }
ScalarValues == { Num(1), Num(0), Str(<<"x">>), Str(<<"x", "y">>) }
OddValues == { None, Bool(TRUE), Dict(<< <<Str(<<"x">>), Num(1)>> >>) }
Values == ScalarValues \cup ListValues \cup OddValues

\* every operator spelling against every value, alone and inside a group
LeafInputs == { Leaf("a", o, v) : o \in OperatorSpellings, v \in Values }
WrappedLeafInputs ==
    { Group(S_AND, <<Leaf("b", <<"=">>, Num(1)), l>>) :
        l \in { Leaf("a", o, v) : o \in OperatorSpellings, v \in {Num(1), Str(<<"x", "y">>), Lst(<<Num(1)>>)} } }

TreeLeaves == { Leaf("a", <<"=">>, Str(<<"x">>)), Leaf("b", <<">">>, Num(1)) }
TreeCombinators == { S_AND, <<"o", "r">> }

RECURSIVE Size(_)
RECURSIVE SizeAll(_)
SizeAll(ns) == IF ns = <<>> THEN 0 ELSE Size(Head(ns)) + SizeAll(Tail(ns))
\* the number of nodes of a JSON filter
Size(n) == IF "rules" \in DOMAIN n /\ n.rules.k = "list" THEN 1 + SizeAll(n.rules.v) ELSE 1

RECURSIVE Trees(_)
RECURSIVE Forests(_)
\* the well-formed filters of at most n nodes
Trees(n) ==
    IF n <= 0 THEN {}
    ELSE TreeLeaves \cup { Group(c, f) : c \in TreeCombinators, f \in Forests(n - 1) }
\* the sequences of filters of at most m nodes in all
Forests(m) ==
    {<<>>} \cup UNION { { <<t>> \o f : f \in Forests(m - Size(t)) } : t \in Trees(m) }

\* groups in every spelling of the combinator, with no child and with one
SpelledGroups ==
    { Group(c, rs) : c \in CombinatorSpellings,
                     rs \in {<<>>} \cup { <<l>> : l \in TreeLeaves }
                               \cup { <<Group(d, <<l>>)>> : d \in CombinatorSpellings, l \in TreeLeaves } }

SmallTrees ==
    { Leaf("a", <<"=">>, Str(<<"x">>)),
      Group(S_OR, <<>>),
      Group(S_AND, <<Leaf("a", <<"=">>, Str(<<"x">>))>>),
      Group(S_AND, <<Leaf("b", <<">">>, Num(1)), Leaf("a", <<"=">>, Str(<<"x">>)), Leaf("b", <<"<">>, Num(1))>>),
      Group(S_OR, <<Leaf("c", S_IN, Lst(<<Num(1)>>)), Group(S_AND, <<Leaf("a", S_LIKE, Str(<<"x">>)), Leaf("c", <<"=">>, Num(1))>>)>>) }

\* filters whose IN leaves hold a list the caller keeps a reference to, and
\* the contents of those lists
AliasTrees ==
    { Leaf("a", S_IN, Ref(1)) }
        \cup { Group(c, <<Leaf("a", S_IN, Ref(1))>> \o rest) :
                 c \in {S_AND, S_OR}, rest \in {<<>>, <<Leaf("b", <<"=">>, Num(1))>>} }
AliasHeaps == { <<first>> : first \in {<<>>, <<Num(1)>>, <<Str(<<"x">>)>>} }

\* group nodes that lack the `rules` key, or hold something else than a list
\* under it
GroupsWithoutRules == { [combinator |-> Str(c)] : c \in {S_AND, <<"o", "r">>} }
GroupsWithOddRules ==
    { [combinator |-> Str(S_AND), rules |-> r] :
        r \in {None, Num(1), Str(<<>>), Str(<<"x">>), Lst(<<Num(1)>>)} }
\* nodes with neither `field` nor `combinator`
BareNodes ==
    { [rules |-> Lst(<<>>)],
      [rules |-> Lst(<<Leaf("a", <<"=">>, Num(1))>>)],
      [operator |-> Str(<<"=">>), value |-> Num(1)] }
\* values of `combinator` other than a spelling of AND or OR
OddCombinators ==
    { Str(<<"x", "o", "r">>), Str(<<"n", "a", "n", "d">>), Str(<<"a", "n", "d", " ">>), Str(<<>>),
      Num(1), Num(0), Lst(<<>>), None }
GroupsWithOddCombinator ==
    { [combinator |-> c, rules |-> Lst(rs)] :
        c \in OddCombinators, rs \in {<<>>, <<Leaf("a", <<"=">>, Num(1))>>} }
\* leaves without the `value` key
LeavesWithoutValue == { [field |-> "a", operator |-> Str(o)] : o \in {<<"=">>, <<"<", "=">>, S_LIKE, S_IN} }
\* leaves that also carry the keys of a group
LeavesWithGroupKeys ==
    { [field |-> "a", operator |-> Str(<<"=">>), value |-> Num(1),
       combinator |-> Str(S_AND), rules |-> Lst(<<[rules |-> Lst(<<>>)]>>)],
      [field |-> "a", operator |-> Str(S_IN), value |-> Lst(<<Num(1)>>),
       combinator |-> Str(<<"x", "o", "r">>), rules |-> Lst(<<Leaf("b", <<"<">>, Num(1))>>)],
      [field |-> "b", operator |-> Str(<<">">>), value |-> Num(0), combinator |-> Str(S_OR)],
      [field |-> "b", operator |-> Str(S_LIKE), value |-> Str(<<"x">>), rules |-> Lst(<<>>)] }
MalformedNodes ==
    GroupsWithoutRules \cup GroupsWithOddRules \cup BareNodes \cup GroupsWithOddCombinator
\* a malformed node as the root and at depth one and two of a filter
MalformedInputs ==
    MalformedNodes \cup LeavesWithoutValue \cup LeavesWithGroupKeys
    \cup { Group(<<"o", "r">>, <<l, Leaf("b", <<">">>, Num(1))>>) : l \in LeavesWithGroupKeys }
    \cup { Group(S_AND, <<Leaf("b", <<">">>, Num(1)), m>>) : m \in MalformedNodes \cup LeavesWithoutValue }
    \cup { Group(S_OR, <<Group(S_AND, <<m>>)>>) : m \in MalformedNodes }

\* constructor arguments of the validation rules
RuleArgs ==
    { [type |-> "NotNull", column |-> "a"],
      [type |-> "NotNull", column |-> "d"],
      [type |-> "Unique", columns |-> <<"b">>],
      [type |-> "Unique", columns |-> <<"d", "a">>],
      [type |-> "Allowed", column |-> "c", allowed |-> <<Num(1), Str(<<"x">>)>>],
      [type |-> "Range", column |-> "b", minimum |-> Num(0), maximum |-> None],
      [type |-> "Range", column |-> "e", minimum |-> Num(0), maximum |-> Num(1)] }
RuleLists == SeqsUpTo(RuleArgs, MaxRules)
SmallRuleLists == { <<>>, <<[type |-> "NotNull", column |-> "a"]>> }

\* every pair of bounds of a range, both absent and zero included
RangeBounds == { None, Num(0), Num(1) }
RangeArgs ==
    { [type |-> "Range", column |-> "b", minimum |-> mn, maximum |-> mx] : mn, mx \in RangeBounds }
\* every column list of a uniqueness rule, the empty one included
UniqueArgs == { [type |-> "Unique", columns |-> cs] : cs \in SeqsUpTo({"a", "b"}, MaxListLen) }
\* every list of allowed values, the empty one and repeated values included
AllowedArgs == { [type |-> "Allowed", column |-> "c", allowed |-> vs] : vs \in SeqsUpTo(ElementValues, MaxListLen) }
\* one rule of each of these, alone and after a rule that is well formed
OneRuleLists ==
    { <<a>> : a \in RangeArgs \cup UniqueArgs \cup AllowedArgs }
    \cup { <<[type |-> "NotNull", column |-> "a"], a>> : a \in RangeArgs }

(* ---------------------------------------------------------------------- *)
(* State: the caller's inputs, the objects it has built, its last call    *)
(* ---------------------------------------------------------------------- *)
VARIABLES
    dataset,    \* the Dataset the caller compiles against
    json,       \* the JSON filter specification
    rules,      \* the constructor arguments of the validation rules
    fexpr,      \* FilterExpression.from_json(json), once called
    ftree,      \* FilterParser.parse(json), once called
    call,       \* the last library call
    ret,        \* what it returned or raised
    heap,       \* the list objects the JSON refers to, by identity
    pc,         \* where the /api/chat request stands
    attempts,   \* poll_message_status: the loop counter
    message,    \* poll_message_status: the message last fetched
    wait_time,  \* poll_message_status: the wait last chosen
    fetches,    \* the number of get_message calls made
    sleeps,     \* the number of anyio.sleep calls ended
    outcome,    \* what poll_message_status returned or raised
    response    \* what the caller of /api/chat receives
filterVars == <<dataset, json, rules, fexpr, ftree, call, ret, heap>>
genieVars == <<pc, attempts, message, wait_time, fetches, sleeps, outcome, response>>
vars == <<filterVars, genieVars>>

NoMessage == [kind |-> "none", status |-> ""]
NoOutcome == [tag |-> "none", value |-> NoMessage, raised |-> [exc |-> "", status_code |-> 0, detail |-> ""]]
\* no /api/chat request under way
GenieIdle ==
    /\ pc = "idle"
    /\ attempts = 0
    /\ message = NoMessage
    /\ wait_time = [num |-> 0, den |-> 1]
    /\ fetches = 0
    /\ sleeps = 0
    /\ outcome = NoOutcome
    /\ response = [status_code |-> 0]

\* the value a reference stands for at present
Deref(v) == IF v.k = "ref" THEN Lst(heap[v.v]) ELSE v
RECURSIVE ResolveJson(_)
\* the JSON as a reader finds it now
ResolveJson(j) ==
    IF ~IsDict(j) THEN j
    ELSE IF "field" \in DOMAIN j
    THEN IF "value" \in DOMAIN j THEN [j EXCEPT !.value = Deref(@)] ELSE j
    ELSE IF "rules" \in DOMAIN j /\ j.rules.k = "list"
    THEN [j EXCEPT !.rules = Lst([i \in DOMAIN j.rules.v |-> ResolveJson(j.rules.v[i])])]
    ELSE j
RECURSIVE ResolveNode(_)
\* a FilterNode as its methods find it now: SimpleRule.__init__ keeps the
\* value object it is given, GroupRule.__init__ copies the list of children
ResolveNode(node) ==
    IF node.cls = "SimpleRule" THEN [node EXCEPT !.value = Deref(@)]
    ELSE [node EXCEPT !.children = [i \in DOMAIN node.children |-> ResolveNode(node.children[i])]]
\* a FilterExpression as its methods find it now
Resolve(self) == [self EXCEPT !.root = ResolveNode(@)]

\* Dataset.__init__
Dataset(table_name, dialect) == [table_name |-> table_name, dialect |-> dialect]

NotBuilt == [cls |-> "NotBuilt"]
Built(x) == x # NotBuilt /\ ~IsErr(x)
Called(name) == [name |-> name, select_all |-> TRUE]
CalledWith(name, select_all) == [name |-> name, select_all |-> select_all]
\* a call on the i-th validation rule of the caller's list
CalledOn(name, i) == [name |-> name, select_all |-> TRUE, index |-> i]

Init ==
    /\ GenieIdle
    /\ heap = <<>>
    /\ dataset = Dataset(TableName, DefaultDialect)
    /\ \/ json \in Trees(MaxNodes) \cup SpelledGroups /\ rules \in SmallRuleLists
       \/ json \in LeafInputs \cup WrappedLeafInputs \cup MalformedInputs /\ rules = <<>>
       \/ json \in SmallTrees /\ rules \in RuleLists
       \/ json = Leaf("a", <<"=">>, Str(<<"x">>)) /\ rules \in OneRuleLists
    /\ fexpr = NotBuilt
    /\ ftree = NotBuilt
    /\ call = Called("none")
    /\ ret = NotBuilt

\* fexpr = FilterExpression.from_json(json)
FromJson ==
    /\ fexpr' = from_json(json)
    /\ call' = Called("from_json")
    /\ ret' = fexpr'
    /\ UNCHANGED <<heap, dataset, json, rules, ftree>>
    /\ UNCHANGED genieVars

\* fexpr.expression(dataset)
Expression ==
    /\ Built(fexpr)
    /\ call' = Called("FilterExpression.expression")
    /\ ret' = FilterExpression_expression(Resolve(fexpr), dataset.table_name)
    /\ UNCHANGED <<heap, dataset, json, rules, fexpr, ftree>>
    /\ UNCHANGED genieVars

\* ftree = FilterParser.parse(json)
Parse ==
    /\ ftree' = FilterParser_parse(ResolveJson(json))
    /\ call' = Called("FilterParser.parse")
    /\ ret' = ftree'
    /\ UNCHANGED <<heap, dataset, json, rules, fexpr>>
    /\ UNCHANGED genieVars

\* ftree.expression(dataset)
RuleExpression ==
    /\ Built(ftree)
    /\ call' = Called("BaseFilterRule.expression")
    /\ ret' = BaseFilterRule_expression(ftree, dataset.table_name)
    /\ UNCHANGED <<heap, dataset, json, rules, fexpr, ftree>>
    /\ UNCHANGED genieVars

\* build_expression(json)
BuildExpression ==
    /\ call' = Called("build_expression")
    /\ ret' = build_expression(ResolveJson(json))
    /\ UNCHANGED <<heap, dataset, json, rules, fexpr, ftree>>
    /\ UNCHANGED genieVars

\* QueryBuilder(dataset, fexpr, rules).combined_condition()
CombinedCondition ==
    /\ Built(fexpr)
    /\ call' = Called("QueryBuilder.combined_condition")
    /\ ret' = IF HasErr(NewRules(rules)) THEN FirstErr(NewRules(rules))
              ELSE combined_condition(QueryBuilder(dataset.table_name, Resolve(fexpr), NewRules(rules)))
    /\ UNCHANGED <<heap, dataset, json, rules, fexpr, ftree>>
    /\ UNCHANGED genieVars

\* generate_sql of a QueryBuilder that takes the rules off the caller's list
GenerateSql_Draining ==
    /\ Built(fexpr)
    /\ \E select_all \in BOOLEAN :
          /\ call' = CalledWith("QueryBuilder.generate_sql", select_all)
          /\ ret' = IF HasErr(NewRules(rules)) THEN FirstErr(NewRules(rules))
                    ELSE generate_sql(QueryBuilder(dataset.table_name, Resolve(fexpr), NewRules(rules)), select_all)
    /\ rules' = <<>>
    /\ UNCHANGED <<heap, dataset, json, fexpr, ftree>>
    /\ UNCHANGED genieVars
\* QueryBuilder(dataset, fexpr, rules).generate_sql(select_all)
GenerateSql ==
    /\ Built(fexpr)
    /\ \E select_all \in BOOLEAN :
          /\ call' = CalledWith("QueryBuilder.generate_sql", select_all)
          /\ ret' = IF HasErr(NewRules(rules)) THEN FirstErr(NewRules(rules))
                    ELSE generate_sql(QueryBuilder(dataset.table_name, Resolve(fexpr), NewRules(rules)), select_all)
    /\ UNCHANGED <<heap, dataset, json, rules, fexpr, ftree>>
    /\ UNCHANGED genieVars

\* Validator(dataset, rules).generate_sql(select_all)
ValidatorGenerateSql ==
    /\ \E select_all \in BOOLEAN :
          /\ call' = CalledWith("Validator.generate_sql", select_all)
          /\ ret' = IF HasErr(NewRules(rules)) THEN FirstErr(NewRules(rules))
                    ELSE Validator_generate_sql([dataset |-> dataset.table_name, rules |-> NewRules(rules)], select_all)
    /\ UNCHANGED <<heap, dataset, json, rules, fexpr, ftree>>
    /\ UNCHANGED genieVars

\* rule = NotNullRule(...) / UniqueValuesRule(...) / AllowedValuesRule(...) /
\* RangeRule(...), from the i-th arguments of the caller's list
ConstructRule ==
    /\ \E i \in DOMAIN rules :
          /\ call' = CalledOn("ValidationRule.__init__", i)
          /\ ret' = NewRule(rules[i])
    /\ UNCHANGED <<heap, dataset, json, rules, fexpr, ftree>>
    /\ UNCHANGED genieVars

\* rule.expression(dataset) on the i-th rule, once constructed
ValidationRuleExpression ==
    /\ \E i \in DOMAIN rules :
          /\ ~IsErr(NewRule(rules[i]))
          /\ call' = CalledOn("ValidationRule.expression", i)
          /\ ret' = ValidationRule_expression(NewRule(rules[i]), dataset.table_name)
    /\ UNCHANGED <<heap, dataset, json, rules, fexpr, ftree>>
    /\ UNCHANGED genieVars

\* fexpr.explain()
Explain ==
    /\ Built(fexpr)
    /\ call' = Called("FilterExpression.explain")
    /\ ret' = Str(FilterExpression_explain(Resolve(fexpr)))
    /\ UNCHANGED <<heap, dataset, json, rules, fexpr, ftree>>
    /\ UNCHANGED genieVars

\* ftree.explain()
RuleExplain ==
    /\ Built(ftree)
    /\ call' = Called("BaseFilterRule.explain")
    /\ ret' = Str(FilterRule_explain(ftree))
    /\ UNCHANGED <<heap, dataset, json, rules, fexpr, ftree>>
    /\ UNCHANGED genieVars

Next ==
    \/ FromJson
    \/ Expression
    \/ Parse
    \/ RuleExpression
    \/ BuildExpression
    \/ CombinedCondition
    \/ GenerateSql
    \/ ValidatorGenerateSql
    \/ ConstructRule
    \/ ValidationRuleExpression
    \/ Explain
    \/ RuleExplain

Spec == Init /\ [][Next]_vars

\* the caller changes in place a list its JSON holds as the value of a leaf:
\* list.append(2), list.clear()
MutateValueList ==
    /\ \E id \in DOMAIN heap :
          \/ /\ Len(heap[id]) < MaxListLen
             /\ heap' = [heap EXCEPT ![id] = Append(@, Num(2))]
          \/ /\ heap[id] # <<>>
             /\ heap' = [heap EXCEPT ![id] = <<>>]
    /\ UNCHANGED <<dataset, json, rules, fexpr, ftree, call, ret>>
    /\ UNCHANGED genieVars

\* the caller changes in place the list under `rules` of its JSON group:
\* rules.pop(), and rules.append(leaf) once the list is empty
MutateRulesList ==
    /\ IsDict(json) /\ "field" \notin DOMAIN json
    /\ "rules" \in DOMAIN json /\ json.rules.k = "list"
    /\ \/ /\ json.rules.v # <<>>
          /\ json' = [json EXCEPT !.rules = Lst(SubSeq(@.v, 1, Len(@.v) - 1))]
       \/ /\ json.rules.v = <<>>
          /\ json' = [json EXCEPT !.rules = Lst(<<Leaf("b", <<"=">>, Num(1))>>)]
    /\ UNCHANGED <<heap, dataset, rules, fexpr, ftree, call, ret>>
    /\ UNCHANGED genieVars

\* a caller that keeps the lists of its JSON and changes them between calls
AliasInit ==
    /\ GenieIdle
    /\ dataset = Dataset(TableName, DefaultDialect)
    /\ json \in AliasTrees
    /\ heap \in AliasHeaps
    /\ rules = <<>>
    /\ fexpr = NotBuilt
    /\ ftree = NotBuilt
    /\ call = Called("none")
    /\ ret = NotBuilt

AliasNext ==
    \/ FromJson
    \/ Expression
    \/ Parse
    \/ RuleExpression
    \/ MutateValueList
    \/ MutateRulesList

AliasSpec == AliasInit /\ [][AliasNext]_vars

(* ---------------------------------------------------------------------- *)
(* genie: the /api/chat handler and its polling helper                    *)
(* ---------------------------------------------------------------------- *)
\* int(os.getenv("MAX_POLLING_ATTEMPTS", "120")), set low enough to walk
\* through and high enough to pass the attempt where the backoff starts
MAX_POLLING_ATTEMPTS == 27
\* int(os.getenv("POLLING_INTERVAL", "5"))
POLLING_INTERVAL == 5

\* the statuses the remote service reports for a message
Statuses == {"COMPLETED", "FAILED", "CANCELLED", "EXECUTING_QUERY", "completed"}
\* the status codes of the error responses of the remote service
UpstreamErrors == {404, 503}
\* what response.json() hands back: the dict parsed from the JSON body, or an
\* object that carries the keys as attributes, as the handlers read it
JsonKinds == {"dict", "object"}

HTTPException(status_code, detail) == [exc |-> "HTTPException", status_code |-> status_code, detail |-> detail]
AttributeError(name) == [exc |-> "AttributeError", status_code |-> 0, detail |-> name]
Returned(m) == [tag |-> "returned", value |-> m, raised |-> AttributeError("")]
Raised(e) == [tag |-> "raised", value |-> NoMessage, raised |-> e]

\* what the awaited client call of start_conversation / get_message ends in:
\* a body, an error status (raise_for_status), or no response at all
Upstream ==
    [out : {"ok"}, kind : JsonKinds, status : Statuses, status_code : {200}]
        \cup [out : {"status_error"}, kind : {"none"}, status : {""}, status_code : UpstreamErrors]
        \cup [out : {"transport_error"}, kind : {"none"}, status : {""}, status_code : {0}]

\* the except clause of start_conversation and get_message: an error that
\* carries no response has no e.response to read the status from
HTTPErrorHandler(up) ==
    IF up.out = "status_error" THEN HTTPException(up.status_code, "upstream")
    ELSE AttributeError("response")

RECURSIVE Pow(_, _)
Pow(b, n) == IF n = 0 THEN 1 ELSE b * Pow(b, n - 1)
\* min(POLLING_INTERVAL * (1.5 ** (attempts - 24)), 30) past attempt 24,
\* POLLING_INTERVAL before, as a fraction
WaitTime(n) ==
    IF n > 24
    THEN IF POLLING_INTERVAL * Pow(3, n - 24) < 30 * Pow(2, n - 24)
         THEN [num |-> POLLING_INTERVAL * Pow(3, n - 24), den |-> Pow(2, n - 24)]
         ELSE [num |-> 30, den |-> 1]
    ELSE [num |-> POLLING_INTERVAL, den |-> 1]

\* `while attempts < MAX_POLLING_ATTEMPTS`, and the raise after the loop
LoopHead(n) ==
    IF n < MAX_POLLING_ATTEMPTS
    THEN /\ pc' = "fetch"
         /\ outcome' = NoOutcome
    ELSE /\ pc' = "polled"
         /\ outcome' = Raised(HTTPException(408, "Polling timeout"))

\* no compile cycle under way
FilterIdle ==
    /\ dataset = Dataset(TableName, DefaultDialect)
    /\ json = Leaf("a", <<"=">>, Str(<<"x">>))
    /\ rules = <<>>
    /\ fexpr = NotBuilt
    /\ ftree = NotBuilt
    /\ call = Called("none")
    /\ ret = NotBuilt
    /\ heap = <<>>

GenieInit ==
    /\ FilterIdle
    /\ GenieIdle

\* chat up to its first fetch: start_conversation, the two ids read off its
\* result, and the entry of poll_message_status
Chat ==
    /\ pc = "idle"
    /\ \E up \in Upstream :
          IF up.out # "ok"
          THEN /\ pc' = "done"
               /\ response' = [status_code |-> IF up.out = "status_error" THEN up.status_code ELSE 500]
               /\ UNCHANGED <<attempts, outcome>>
          ELSE IF up.kind = "dict"
          THEN /\ pc' = "done"
               /\ response' = [status_code |-> 500]
               /\ UNCHANGED <<attempts, outcome>>
          ELSE /\ attempts' = 0
               /\ LoopHead(0)
               /\ UNCHANGED response
    /\ UNCHANGED <<message, wait_time, fetches, sleeps>>
    /\ UNCHANGED filterVars

\* one turn of the loop up to its sleep: get_message, the test of the
\* status, the choice of the wait
GetMessage ==
    /\ pc = "fetch"
    /\ fetches' = fetches + 1
    /\ \E up \in Upstream :
          IF up.out # "ok"
          THEN /\ pc' = "polled"
               /\ outcome' = Raised(HTTPErrorHandler(up))
               /\ UNCHANGED <<message, wait_time>>
          ELSE /\ message' = [kind |-> up.kind, status |-> up.status]
               /\ IF up.kind = "dict"
                  THEN /\ pc' = "polled"
                       /\ outcome' = Raised(AttributeError("status"))
                       /\ UNCHANGED wait_time
                  ELSE IF up.status \in {"COMPLETED", "FAILED", "CANCELLED"}
                  THEN /\ pc' = "polled"
                       /\ outcome' = Returned(message')
                       /\ UNCHANGED wait_time
                  ELSE /\ pc' = "sleep"
                       /\ wait_time' = WaitTime(attempts)
                       /\ UNCHANGED outcome
    /\ UNCHANGED <<attempts, sleeps, response>>
    /\ UNCHANGED filterVars

\* the sleep ends: attempts += 1 and the loop condition is tested again
Sleep ==
    /\ pc = "sleep"
    /\ sleeps' = sleeps + 1
    /\ attempts' = attempts + 1
    /\ LoopHead(attempts')
    /\ UNCHANGED <<message, wait_time, fetches, response>>
    /\ UNCHANGED filterVars

\* the try of chat around poll_message_status: the result is returned,
\* whatever was raised is raised again as HTTPException(500)
ChatRespond ==
    /\ pc = "polled"
    /\ pc' = "done"
    /\ response' = IF outcome.tag = "returned" THEN [status_code |-> 200]
                   ELSE [status_code |-> 500]
    /\ UNCHANGED <<attempts, message, wait_time, fetches, sleeps, outcome>>
    /\ UNCHANGED filterVars

GenieNext ==
    \/ Chat
    \/ GetMessage
    \/ Sleep
    \/ ChatRespond

GenieSpec == GenieInit /\ [][GenieNext]_vars
\* the event loop resumes a coroutine whose awaited call has ended, and the
\* client call and the sleep both end
GenieFairSpec == GenieSpec /\ WF_vars(GenieNext)
(* ---------------------------------------------------------------------- *)
(* Properties                                                             *)
(* ---------------------------------------------------------------------- *)
IsLeafJson(j) == "field" \in DOMAIN j
\* a group with a list under `rules`
IsGroupJson(j) ==
    /\ ~IsLeafJson(j) /\ "combinator" \in DOMAIN j
    /\ "rules" \in DOMAIN j /\ j.rules.k = "list"
\* node.get("value") of the caller's leaf
JsonValue == Get(json, "value")
FilterCompiled == call.name \in {"FilterExpression.expression", "BaseFilterRule.expression"}
EmptyGroupJson ==
    /\ IsGroupJson(json) /\ json.rules.v = <<>>
    /\ IsStr(json.combinator) /\ json.combinator.v \in CombinatorSpellings

\* C1: a group with no child, its combinator AND or OR in any letter case,
\* parses without error and compiles to the always-true predicate, through
\* GroupRule.expression and through LogicalGroup.expression.
C1_EmptyGroupIsTrue ==
    EmptyGroupJson =>
        /\ (call.name \in {"from_json", "FilterParser.parse"} => ~IsErr(ret))
        /\ (FilterCompiled => ret = TrueExpr)

C1_Witness ==
    /\ json = Group(<<"o", "R">>, <<>>)
    /\ call.name = "BaseFilterRule.expression"
    /\ ret = TrueExpr

RECURSIVE Innermost(_)
\* the node under a chain of single-child groups
Innermost(j) == IF IsGroupJson(j) /\ Len(j.rules.v) = 1 THEN Innermost(j.rules.v[1]) ELSE j

\* C2: a group with exactly one child compiles to exactly what the child
\* compiles to, at every depth: a chain of single-child groups compiles to
\* the predicate of the node under the chain, and when that node is a leaf
\* no AND, OR or parenthesis is put around it.
C2_SingleChildFlattened ==
    (IsGroupJson(json) /\ Len(json.rules.v) = 1) =>
        /\ (call.name = "FilterExpression.expression" =>
                ret = FilterNode_expression(from_json_parse(Innermost(json)), TableName))
        /\ (call.name = "BaseFilterRule.expression" =>
                ret = BaseFilterRule_expression(FilterParser_parse(Innermost(json)), TableName))
        /\ ((FilterCompiled /\ IsLeafJson(Innermost(json)) /\ ~IsErr(ret)) =>
                ret.op \notin {"And", "Or", "Paren", "Boolean"})

C2_Witness ==
    /\ json = Group(<<"o", "r">>, <<Group(S_AND, <<Leaf("b", <<">">>, Num(1))>>)>>)
    /\ call.name = "BaseFilterRule.expression"
    /\ ret = Binary("GT", Column("b", TableName), LiteralNumber(Num(1)))

Unparen(e) == IF e.op = "Paren" THEN e.this ELSE e
RECURSIVE Conjuncts(_)
\* the operands of a left-folded conjunction, left to right
Conjuncts(e) == IF e.op = "And" THEN Conjuncts(e.this) \o <<Unparen(e.expression)>> ELSE <<Unparen(e)>>

\* C3: with one or more validation rules combined_condition is a
\* conjunction whose operands are the filter's predicate and then the rules'
\* predicates in the order given, none dropped, repeated or moved.
C3_FilterFirstThenRules ==
    (call.name = "QueryBuilder.combined_condition" /\ rules # <<>> /\ ~IsErr(ret)) =>
        /\ ret.op = "And"
        /\ Conjuncts(ret) =
              <<FilterExpression_expression(fexpr, TableName)>>
              \o [i \in DOMAIN rules |-> ValidationRule_expression(NewRule(rules[i]), TableName)]

C3_Witness ==
    /\ call.name = "QueryBuilder.combined_condition"
    /\ json = Group(S_AND, <<Leaf("a", <<"=">>, Str(<<"x">>))>>)
    /\ Len(rules) = 2 /\ rules[1].type = "Range" /\ rules[1].column = "e" /\ rules[2].type = "NotNull"
    /\ ~IsErr(ret)
    /\ Len(Conjuncts(ret)) = 3
    /\ Conjuncts(ret)[1].op = "EQ" /\ Conjuncts(ret)[2].op = "And" /\ Conjuncts(ret)[3].op = "IsNot"

\* C4: with no validation rule combined_condition returns the filter's
\* predicate itself, with no conjunction around it; an empty group alone
\* combines to TRUE.
C4_NoRulesReturnsFilter ==
    (call.name = "QueryBuilder.combined_condition" /\ rules = <<>>) =>
        /\ ret = FilterExpression_expression(fexpr, TableName)
        /\ (EmptyGroupJson => ret = TrueExpr)
        /\ ((IsLeafJson(json) /\ ~IsErr(ret)) => ret.op \notin {"And", "Paren"})

C4_Witness ==
    /\ call.name = "QueryBuilder.combined_condition" /\ rules = <<>>
    /\ json = Group(S_OR, <<>>)
    /\ ret = TrueExpr

RECURSIVE JsonFields(_)
RECURSIVE JsonFieldsAll(_)
JsonFieldsAll(js) == IF js = <<>> THEN <<>> ELSE JsonFields(Head(js)) \o JsonFieldsAll(Tail(js))
\* the fields of the leaves of a JSON filter, depth first, in pre-order
JsonFields(j) == IF IsLeafJson(j) THEN <<j.field>> ELSE IF IsGroupJson(j) THEN JsonFieldsAll(j.rules.v) ELSE <<>>
RECURSIVE ArgColumns(_)
\* the columns the rules name, rule by rule
ArgColumns(as) ==
    IF as = <<>> THEN <<>>
    ELSE (IF Head(as).type = "Unique" THEN Head(as).columns ELSE <<Head(as).column>>) \o ArgColumns(Tail(as))
Occurrences == JsonFields(json) \o ArgColumns(rules)
FirstIndex(s, x) == CHOOSE i \in DOMAIN s : s[i] = x /\ \A j \in 1..(i - 1) : s[j] # x
Projected == [i \in DOMAIN ret.expressions |-> ret.expressions[i].this]
Projection == call.name = "QueryBuilder.generate_sql" /\ ~call.select_all /\ ~IsErr(ret)

\* C5: the column list of QueryBuilder.generate_sql(select_all=False) has
\* no duplicate, holds exactly the names that occur in the filter's leaves
\* or in the validation rules, and lists them in the order of their first
\* occurrence, the filter's leaves (depth first, pre-order) coming before
\* the rules.
C5_ProjectionFirstOccurrence ==
    Projection =>
        /\ \A i, j \in DOMAIN Projected : i # j => Projected[i] # Projected[j]
        /\ {Projected[i] : i \in DOMAIN Projected} = {Occurrences[i] : i \in DOMAIN Occurrences}
        /\ \A i, j \in DOMAIN Projected :
              i < j => FirstIndex(Occurrences, Projected[i]) < FirstIndex(Occurrences, Projected[j])

C5_Witness ==
    /\ Projection
    /\ Occurrences = <<"b", "a", "b", "d", "a", "a">>
    /\ Projected = <<"b", "a", "d">>

\* C6: in projection mode every validation rule contributes its columns,
\* through QueryBuilder.generate_sql and through Validator.generate_sql,
\* which returns a SELECT for any rule list.
C6_EveryRuleContributes ==
    (call.name \in {"QueryBuilder.generate_sql", "Validator.generate_sql"} /\ ~call.select_all) =>
        /\ (call.name = "Validator.generate_sql" => ~IsErr(ret))
        /\ (~IsErr(ret) =>
               \A i \in DOMAIN ArgColumns(rules) :
                   \E n \in DOMAIN ret.expressions :
                       ret.expressions[n] = Column(ArgColumns(rules)[i], TableName))

\* the spellings the parsers document, and the kind each stands for
DocumentedKind(o) ==
    CASE o \in {<<"=">>, <<"=", "=">>} -> "EQ"
      [] o \in {<<"!", "=">>, <<"<", ">">>} -> "NEQ"
      [] o = <<">">> -> "GT"
      [] o = <<"<">> -> "LT"
      [] o = <<">", "=">> -> "GTE"
      [] o = <<"<", "=">> -> "LTE"
      [] o \in {S_LIKE, <<"l", "i", "k", "e">>, <<"L", "i", "k", "e">>} -> "Like"
      [] o \in {S_IN, <<"i", "n">>, <<"I", "n">>} -> "In"
      [] OTHER -> "none"
\* the text of the scalar values drawn as inputs
ScalarText(v) ==
    CASE v = Num(0) -> <<"0">>
      [] v = Num(1) -> <<"1">>
      [] OTHER -> v.v

\* C7: a leaf whose operator is a spelling, in any letter case, of one of
\* = == != <> > < >= <= LIKE IN compiles to the documented kind over the
\* leaf's column and value: a comparison or pattern match against one
\* literal, a membership against one literal per element of the list.
C7_OperatorKinds ==
    (IsLeafJson(json) /\ DocumentedKind(json.operator.v) # "none" /\ FilterCompiled) =>
        LET kind == DocumentedKind(json.operator.v) IN
        /\ ((kind # "In" \/ JsonValue.k = "list") => ~IsErr(ret))
        /\ (~IsErr(ret) =>
               /\ ret.op = kind
               /\ ret.this = Column(json.field, TableName)
               /\ (kind # "In" => ret.expression.op = "Literal")
               /\ ((kind # "In" /\ JsonValue \in ScalarValues) =>
                      /\ ret.expression.is_string = (JsonValue.k = "str")
                      /\ ret.expression.this = ScalarText(JsonValue))
               /\ ((kind = "In" /\ JsonValue.k = "list") =>
                      Len(ret.expressions) = Len(JsonValue.v)))

C7_Witness ==
    /\ json = Leaf("a", <<"l", "i", "k", "e">>, Str(<<"x", "y">>))
    /\ call.name = "FilterExpression.expression"
    /\ ret = Binary("Like", Column("a", TableName), [op |-> "Literal", this |-> <<"x", "y">>, is_string |-> TRUE])

RECURSIVE HasUnrecognizedOperator(_)
HasUnrecognizedOperator(j) ==
    IF IsLeafJson(j) THEN DocumentedKind(j.operator.v) = "none"
    ELSE IsGroupJson(j) /\ \E i \in DOMAIN j.rules.v : HasUnrecognizedOperator(j.rules.v[i])

\* C8: a filter holding a leaf with an unrecognized operator fails to
\* parse: FilterExpression.from_json and FilterParser.parse both raise.
C8_UnsupportedOperatorFailsAtParse ==
    (call.name \in {"from_json", "FilterParser.parse"} /\ HasUnrecognizedOperator(json)) => IsErr(ret)

\* C9: a leaf with operator IN and a single string as its value is rejected
\* on every path: parse then compile through FilterExpression and through
\* FilterParser, and build_expression.
C9_InStringRejected ==
    (/\ IsLeafJson(json) /\ DocumentedKind(json.operator.v) = "In" /\ IsStr(JsonValue)
     /\ call.name \in {"FilterExpression.expression", "BaseFilterRule.expression", "build_expression"})
        => IsErr(ret)

\* C10: a leaf with an operator other than IN and a sequence as its value
\* is rejected: compiling it raises and builds no comparison.
C10_SequenceValueRejected ==
    (/\ IsLeafJson(json) /\ DocumentedKind(json.operator.v) \notin {"none", "In"}
     /\ JsonValue.k = "list"
     /\ call.name \in {"FilterExpression.expression", "BaseFilterRule.expression", "build_expression"})
        => IsErr(ret)

ParseCalled == call.name \in {"from_json", "FilterParser.parse"}

RECURSIVE HasGroupWithoutRules(_)
\* j holds a node with `combinator` whose `rules` is missing or not a list
HasGroupWithoutRules(j) ==
    /\ IsDict(j) /\ ~IsLeafJson(j)
    /\ \/ "combinator" \in DOMAIN j /\ ("rules" \notin DOMAIN j \/ j.rules.k # "list")
       \/ IsGroupJson(j) /\ \E i \in DOMAIN j.rules.v : HasGroupWithoutRules(j.rules.v[i])

\* C11: a filter holding a node that has `combinator` but no `rules` key, or
\* something else than a sequence under `rules`, fails to parse through
\* FilterExpression.from_json and through FilterParser.parse: no tree with a
\* silently empty group is returned.
C11_GroupNeedsRules ==
    (ParseCalled /\ HasGroupWithoutRules(json)) => IsErr(ret)

RECURSIVE HasBareNode(_)
\* j holds a node with neither `field` nor `combinator`
HasBareNode(j) ==
    /\ IsDict(j) /\ ~IsLeafJson(j)
    /\ \/ "combinator" \notin DOMAIN j
       \/ IsGroupJson(j) /\ \E i \in DOMAIN j.rules.v : HasBareNode(j.rules.v[i])

\* C12: a filter holding, at any depth, a node with neither `field` nor
\* `combinator` (and no other defect) fails with the error that reports the
\* missing combinator, through from_json, FilterParser.parse and
\* build_expression, and no tree is ever held for it.
C12_BareNodeFails ==
    HasBareNode(json) =>
        /\ (call.name = "from_json" => ret = Err("ValueError", "Group rule missing 'combinator'"))
        /\ (call.name = "FilterParser.parse" => ret = Err("ValueError", "Group node missing 'combinator'"))
        /\ (call.name = "build_expression" => ret = Err("KeyError", "combinator"))
        /\ ~Built(fexpr) /\ ~Built(ftree)

C12_Witness ==
    /\ json = Group(S_OR, <<Group(S_AND, <<[rules |-> Lst(<<>>)]>>)>>)
    /\ call.name = "from_json"
    /\ ret = Err("ValueError", "Group rule missing 'combinator'")
    /\ IsErr(ftree)

RECURSIVE GroupsHoldAndOr(_)
\* every group of the tree t holds "AND" or "OR"
GroupsHoldAndOr(t) ==
    "children" \in DOMAIN t =>
        /\ t.combinator \in {S_AND, S_OR}
        /\ \A i \in DOMAIN t.children : GroupsHoldAndOr(t.children[i])

\* C13: a group whose combinator is a string other than a spelling of AND
\* or OR, the empty string included, fails to parse with the
\* invalid-combinator error through from_json and through
\* FilterParser.parse; a spelling of AND or OR in any letter case is stored
\* in upper case, and no group of a parsed tree holds anything else.
C13_InvalidCombinatorRejected ==
    /\ (/\ ParseCalled /\ IsDict(json) /\ ~IsLeafJson(json)
        /\ "combinator" \in DOMAIN json /\ IsStr(json.combinator)
        /\ "rules" \in DOMAIN json /\ json.rules \in {Lst(<<>>), Lst(<<Leaf("a", <<"=">>, Num(1))>>)})
          => IF Upper(json.combinator.v) \in {S_AND, S_OR}
             THEN /\ ~IsErr(ret)
                  /\ (call.name = "from_json" => ret.root.combinator = Upper(json.combinator.v))
                  /\ (call.name = "FilterParser.parse" => ret.combinator = Upper(json.combinator.v))
             ELSE ret = Err("ValueError", "combinator must be 'AND' or 'OR'")
    /\ (Built(fexpr) => GroupsHoldAndOr(fexpr.root))
    /\ (Built(ftree) => GroupsHoldAndOr(ftree))

LeafCompiled == call.name \in {"FilterExpression.expression", "BaseFilterRule.expression", "build_expression"}

\* C14: compiling a leaf with operator IN and an empty sequence as its value
\* fails: SimpleRule.expression, InFilter.expression and build_expression
\* emit no IN over an empty list.
C14_EmptyInRejected ==
    (/\ IsLeafJson(json) /\ DocumentedKind(json.operator.v) = "In"
     /\ JsonValue.k = "list" /\ JsonValue.v = <<>>
     /\ LeafCompiled)
        => IsErr(ret)

\* C15: a leaf whose value is a boolean, null (the `value` key absent
\* included) or a nested object is rejected when it is compiled: no
\* comparison against a numeric literal is built from it.
C15_OnlyStringsAndNumbers ==
    (/\ IsLeafJson(json) /\ DocumentedKind(json.operator.v) \notin {"none", "In"}
     /\ JsonValue.k \in {"none", "bool", "dict"}
     /\ LeafCompiled)
        => IsErr(ret)

\* the arguments of the rule the last rule-level call was made on
RuleArg == rules[call.index]
RuleCompiled(type) == call.name = "ValidationRule.expression" /\ RuleArg.type = type
RuleConstructed(type) == call.name = "ValidationRule.__init__" /\ RuleArg.type = type
NumberLiteral(v) == [op |-> "Literal", this |-> ScalarText(v), is_string |-> FALSE]
Present(bound) == bound.k # "none"

\* C16: RangeRule.expression yields, with both bounds, the AND of
\* column >= minimum and column <= maximum in that order; with one bound,
\* that one comparison and no AND; a bound of 0 is a bound.
C16_RangeShape ==
    RuleCompiled("Range") =>
        LET col == Column(RuleArg.column, TableName)
            ge == [op |-> "GTE", this |-> col, expression |-> NumberLiteral(RuleArg.minimum)]
            le == [op |-> "LTE", this |-> col, expression |-> NumberLiteral(RuleArg.maximum)]
        IN  /\ (Present(RuleArg.minimum) /\ Present(RuleArg.maximum)) =>
                   ret = [op |-> "And", this |-> ge, expression |-> le]
            /\ (Present(RuleArg.minimum) /\ ~Present(RuleArg.maximum)) => ret = ge
            /\ (~Present(RuleArg.minimum) /\ Present(RuleArg.maximum)) => ret = le

C16_Witness ==
    /\ RuleCompiled("Range")
    /\ RuleArg.minimum = Num(0) /\ RuleArg.maximum = Num(1)
    /\ ret.op = "And" /\ ret.this.op = "GTE" /\ ret.this.expression.this = <<"0">>
    /\ ret.expression.op = "LTE" /\ ret.expression.expression.this = <<"1">>

NoBound(a) == a.type = "Range" /\ ~Present(a.minimum) /\ ~Present(a.maximum)
RulesUsed ==
    call.name \in {"QueryBuilder.combined_condition", "QueryBuilder.generate_sql", "Validator.generate_sql"}

\* C17: constructing a RangeRule with neither bound is rejected; a RangeRule
\* that exists has a bound, a rule list holding arguments without bounds
\* never reaches a compile, and RangeRule.expression never runs on zero
\* bounds.
C17_RangeNeedsBound ==
    /\ RuleConstructed("Range") =>
          IF NoBound(RuleArg)
          THEN ret = Err("ValueError", "At least one of minimum or maximum must be provided")
          ELSE ret.cls = "RangeRule" /\ (Present(ret.minimum) \/ Present(ret.maximum))
    /\ (RulesUsed /\ \E i \in DOMAIN rules : NoBound(rules[i])) =>
          ret = Err("ValueError", "At least one of minimum or maximum must be provided")
    /\ RuleCompiled("Range") => ~NoBound(RuleArg)
    /\ ret # Err("IndexError", "list index out of range")

C17_Witness ==
    /\ RuleConstructed("Range") /\ NoBound(RuleArg)
    /\ ret = Err("ValueError", "At least one of minimum or maximum must be provided")

CountStar == [op |-> "Count", this |-> [op |-> "Star"], distinct |-> FALSE]
CountDistinct(key) == [op |-> "Count", this |-> key, distinct |-> TRUE]

\* C18: UniqueValuesRule.expression over one column or more yields
\* COUNT(*) = COUNT(DISTINCT key): key is the qualified column itself, not a
\* tuple of one, when there is one column, and otherwise the tuple of the
\* qualified columns in the order given.
C18_UniqueShape ==
    (RuleCompiled("Unique") /\ RuleArg.columns # <<>>) =>
        LET cs == RuleArg.columns
            key == IF Len(cs) = 1 THEN Column(cs[1], TableName)
                   ELSE [op |-> "Tuple", expressions |-> [i \in DOMAIN cs |-> Column(cs[i], TableName)]]
        IN  ret = [op |-> "EQ", this |-> CountStar, expression |-> CountDistinct(key)]

C18_Witness ==
    /\ RuleCompiled("Unique") /\ RuleArg.columns = <<"b", "a">>
    /\ ret.expression.this.op = "Tuple"
    /\ ret.expression.this.expressions = <<Column("b", TableName), Column("a", TableName)>>

\* one literal per value, in order: a string literal for a string, a
\* numeric literal for anything else
LiteralsOf(vs) ==
    [i \in DOMAIN vs |-> [op |-> "Literal", this |-> ScalarText(vs[i]), is_string |-> (vs[i].k = "str")]]

\* C19: the IN of a leaf whose value is a list, and the IN of an
\* AllowedValuesRule, hold one literal per input value, in the input's
\* order, repeated values kept; the i-th literal is a string literal iff the
\* i-th value is a string, and a numeric literal otherwise.
C19_OneLiteralPerValue ==
    /\ RuleCompiled("Allowed") =>
          /\ ret.op = "In" /\ ret.this = Column(RuleArg.column, TableName)
          /\ ret.expressions = LiteralsOf(RuleArg.allowed)
    /\ (/\ IsLeafJson(json) /\ DocumentedKind(json.operator.v) = "In" /\ JsonValue.k = "list"
        /\ LeafCompiled) =>
          /\ ret.op = "In"
          /\ ret.expressions = LiteralsOf(JsonValue.v)

C19_Witness ==
    /\ RuleCompiled("Allowed") /\ RuleArg.allowed = <<Str(<<"x">>), Str(<<"x">>)>>
    /\ Len(ret.expressions) = 2
    /\ ret.expressions[1] = ret.expressions[2] /\ ret.expressions[1].is_string

\* C20: a UniqueValuesRule over no column and an AllowedValuesRule over no
\* value are rejected by the constructor or by expression: a rule that was
\* constructed from such arguments fails to compile, so no COUNT(DISTINCT)
\* over an empty tuple and no IN over an empty list is emitted.
C20_EmptyRuleArgumentsRejected ==
    /\ (RuleCompiled("Unique") /\ RuleArg.columns = <<>>) => IsErr(ret)
    /\ (RuleCompiled("Allowed") /\ RuleArg.allowed = <<>>) => IsErr(ret)

RECURSIVE HasMalformedNode(_)
\* j holds a leaf with an unrecognized operator or with IN over a value that
\* is not a list, or a node without a combinator or with a combinator that
\* is no spelling of AND or OR
HasMalformedNode(j) ==
    IF ~IsDict(j) THEN FALSE
    ELSE IF IsLeafJson(j)
    THEN /\ "operator" \in DOMAIN j /\ IsStr(j.operator)
         /\ \/ DocumentedKind(j.operator.v) = "none"
            \/ DocumentedKind(j.operator.v) = "In" /\ Get(j, "value").k # "list"
    ELSE \/ "combinator" \notin DOMAIN j
         \/ ~IsStr(j.combinator)
         \/ Upper(j.combinator.v) \notin {S_AND, S_OR}
         \/ IsGroupJson(j) /\ \E i \in DOMAIN j.rules.v : HasMalformedNode(j.rules.v[i])

\* C21: when the filter holds a malformed node the cycle from_json,
\* expression, combined_condition, generate_sql ends in an error: no tree
\* is compiled to a predicate and generate_sql returns no query built from
\* the well-formed rest.
C21_MalformedAborts ==
    (/\ HasMalformedNode(json)
     /\ call.name \in {"FilterExpression.expression", "QueryBuilder.combined_condition",
                       "QueryBuilder.generate_sql"})
        => IsErr(ret)

\* the tree a parser returned is a leaf: a SimpleRule, a per-operator filter
IsLeafTree(t) == "children" \notin DOMAIN t /\ "field" \in DOMAIN t
ParsedRoot == IF call.name = "from_json" THEN ret.root ELSE ret

\* C25: from_json and FilterParser.parse take a node for a leaf iff it has
\* the key `field`: a node with `field` and with `combinator` or `rules` is
\* parsed as a leaf over that field and its `rules` are not parsed; a node
\* without `field` never comes out as a leaf.
C25_LeafIffField ==
    (ParseCalled /\ IsDict(json) /\ ~IsErr(ret)) =>
        /\ IsLeafJson(json) => (IsLeafTree(ParsedRoot) /\ ParsedRoot.field = json.field)
        /\ ~IsLeafJson(json) => ~IsLeafTree(ParsedRoot)
        /\ (IsGroupJson(json) /\ IsStr(json.combinator)) =>
              \A i \in DOMAIN json.rules.v :
                  IsLeafJson(json.rules.v[i]) <=> IsLeafTree(ParsedRoot.children[i])

C25_Witness ==
    /\ json = [field |-> "a", operator |-> Str(<<"=">>), value |-> Num(1),
               combinator |-> Str(S_AND), rules |-> Lst(<<[rules |-> Lst(<<>>)]>>)]
    /\ call.name = "FilterParser.parse"
    /\ ret = SingleValueRule("EqualsFilter", "a", Num(1))

RECURSIVE Operands(_, _)
\* the operands of a left-deep chain of `kind`, left to right
Operands(kind, e) ==
    IF e.op = kind THEN Operands(kind, e.this) \o <<Unparen(e.expression)>> ELSE <<Unparen(e)>>
ConnectorOf(j) == IF Upper(j.combinator.v) = S_AND THEN "And" ELSE "Or"

RECURSIVE GroupRuleInOrder(_)
\* through from_json: the children of every group of j are the parses of its
\* rules, in order, and two or more compile to operands in that order
GroupRuleInOrder(j) ==
    IsGroupJson(j) =>
        LET rs == j.rules.v
            t == from_json_parse(j)
            e == FilterNode_expression(t, TableName)
        IN  /\ t.children = [i \in DOMAIN rs |-> from_json_parse(rs[i])]
            /\ \A i \in DOMAIN rs : IsLeafJson(rs[i]) => t.children[i].field = rs[i].field
            /\ (Len(rs) >= 2 /\ ~IsErr(e)) =>
                   Operands(ConnectorOf(j), e) =
                       [i \in DOMAIN rs |-> FilterNode_expression(from_json_parse(rs[i]), TableName)]
            /\ \A i \in DOMAIN rs : GroupRuleInOrder(rs[i])

RECURSIVE LogicalGroupInOrder(_)
\* the same through FilterParser.parse
LogicalGroupInOrder(j) ==
    IsGroupJson(j) =>
        LET rs == j.rules.v
            t == FilterParser_parse(j)
            e == BaseFilterRule_expression(t, TableName)
        IN  /\ t.children = [i \in DOMAIN rs |-> FilterParser_parse(rs[i])]
            /\ \A i \in DOMAIN rs : IsLeafJson(rs[i]) => t.children[i].field = rs[i].field
            /\ (Len(rs) >= 2 /\ ~IsErr(e)) =>
                   Operands(ConnectorOf(j), e) =
                       [i \in DOMAIN rs |-> BaseFilterRule_expression(FilterParser_parse(rs[i]), TableName)]
            /\ \A i \in DOMAIN rs : LogicalGroupInOrder(rs[i])

\* C26: a group whose rules are r1..rn parses to a node whose children are
\* parse(r1)..parse(rn) in that order, and for n >= 2 compiles to an AND/OR
\* whose operands are compile(r1)..compile(rn) left to right, at every depth.
C26_OrderPreserved ==
    /\ (call.name = "from_json" /\ ~IsErr(ret)) => (ret.root = from_json_parse(json) /\ GroupRuleInOrder(json))
    /\ (call.name = "FilterParser.parse" /\ ~IsErr(ret)) => (ret = FilterParser_parse(json) /\ LogicalGroupInOrder(json))
    /\ (call.name = "FilterExpression.expression" /\ ~IsErr(ret)) =>
          (ret = FilterNode_expression(fexpr.root, TableName) /\ GroupRuleInOrder(json))
    /\ (call.name = "BaseFilterRule.expression" /\ ~IsErr(ret)) =>
          (ret = BaseFilterRule_expression(ftree, TableName) /\ LogicalGroupInOrder(json))

C26_Witness ==
    /\ json = Group(S_AND, <<Leaf("b", <<">">>, Num(1)), Leaf("a", <<"=">>, Str(<<"x">>)), Leaf("b", <<"<">>, Num(1))>>)
    /\ call.name = "FilterExpression.expression"
    /\ Operands("And", ret) =
          << Binary("GT", Column("b", TableName), NumberLiteral(Num(1))),
             Binary("EQ", Column("a", TableName), [op |-> "Literal", this |-> <<"x">>, is_string |-> TRUE]),
             Binary("LT", Column("b", TableName), NumberLiteral(Num(1))) >>

RECURSIVE ColumnsOf(_)
RECURSIVE ColumnsOfAll(_)
ColumnsOfAll(es) == IF es = <<>> THEN <<>> ELSE ColumnsOf(Head(es)) \o ColumnsOfAll(Tail(es))
\* the column references of an expression tree, left to right
ColumnsOf(e) ==
    CASE e.op = "Column" -> <<e>>
      [] e.op \in {"Literal", "Boolean", "Null", "Star", "Table"} -> <<>>
      [] e.op \in {"Paren", "Count"} -> ColumnsOf(e.this)
      [] e.op = "In" -> ColumnsOf(e.this) \o ColumnsOfAll(e.expressions)
      [] e.op = "Tuple" -> ColumnsOfAll(e.expressions)
      [] OTHER -> ColumnsOf(e.this) \o ColumnsOf(e.expression)

\* C27: every column reference of a predicate compiled from a filter tree,
\* from a validation rule or by QueryBuilder.combined_condition is qualified
\* with the table name of the dataset passed to the call.
C27_ColumnsQualified ==
    (/\ call.name \in {"FilterExpression.expression", "BaseFilterRule.expression",
                       "ValidationRule.expression", "QueryBuilder.combined_condition"}
     /\ ~IsErr(ret))
        => \A i \in DOMAIN ColumnsOf(ret) : ColumnsOf(ret)[i].table = TableName

C27_Witness ==
    /\ call.name = "QueryBuilder.combined_condition" /\ ~IsErr(ret)
    /\ [i \in DOMAIN ColumnsOf(ret) |-> ColumnsOf(ret)[i].this] = <<"b", "a", "b", "d", "a">>
    /\ \A i \in DOMAIN ColumnsOf(ret) : ColumnsOf(ret)[i].table = "t"

RECURSIVE Unqualified(_)
\* the expression e with the table taken off every column reference
Unqualified(e) ==
    CASE e.op = "Column" -> Column(e.this, "")
      [] e.op \in {"Literal", "Boolean", "Null", "Star", "Table"} -> e
      [] e.op = "Paren" -> Paren(Unqualified(e.this))
      [] e.op = "In" -> InExpr(Unqualified(e.this), [i \in DOMAIN e.expressions |-> Unqualified(e.expressions[i])])
      [] OTHER -> Binary(e.op, Unqualified(e.this), Unqualified(e.expression))
\* what each of the three compilers makes of the caller's JSON
ViaFilterExpression ==
    IF IsErr(from_json(json)) THEN from_json(json)
    ELSE FilterExpression_expression(from_json(json), TableName)
ViaFilterParser ==
    IF IsErr(FilterParser_parse(json)) THEN FilterParser_parse(json)
    ELSE BaseFilterRule_expression(FilterParser_parse(json), TableName)
ViaBuildExpression == build_expression(json)

\* C28: the three compilers accept the same JSON filters and, on a filter
\* they accept, build the same predicate up to column qualification.
C28_CompilersAgree ==
    LeafCompiled =>
        /\ IsErr(ViaFilterExpression) = IsErr(ViaFilterParser)
        /\ IsErr(ViaFilterParser) = IsErr(ViaBuildExpression)
        /\ ~IsErr(ViaBuildExpression) =>
              /\ Unqualified(ViaFilterExpression) = ViaBuildExpression
              /\ Unqualified(ViaFilterParser) = ViaBuildExpression

RECURSIVE WellFormedJson(_)
\* a JSON filter as documented: leaves with a recognized operator (and a list
\* under IN), groups with AND/OR and a list of well-formed nodes
WellFormedJson(j) ==
    /\ IsDict(j)
    /\ IF IsLeafJson(j)
       THEN /\ "operator" \in DOMAIN j /\ IsStr(j.operator)
            /\ DocumentedKind(j.operator.v) # "none"
            /\ DocumentedKind(j.operator.v) = "In" => Get(j, "value").k = "list"
       ELSE /\ IsGroupJson(j) /\ IsStr(j.combinator)
            /\ Upper(j.combinator.v) \in {S_AND, S_OR}
            /\ \A i \in DOMAIN j.rules.v : WellFormedJson(j.rules.v[i])
RECURSIVE GroupRuleExplained(_)
\* FilterExpression.explain follows the nesting of j: a group is its
\* combinator around its children's explanations in order, a leaf shows its
\* field and its operator
GroupRuleExplained(j) ==
    LET s == FilterNode_explain(from_json_parse(j)) IN
    IF IsLeafJson(j)
    THEN /\ Contains(s, <<"f", "i", "e", "l", "d", "=">> \o PyRepr(Str(<<j.field>>)))
         /\ Contains(s, <<"o", "p", "e", "r", "a", "t", "o", "r", "=">> \o PyRepr(j.operator))
    ELSE /\ s = Upper(j.combinator.v) \o <<"(">>
                 \o Join([i \in DOMAIN j.rules.v |-> FilterNode_explain(from_json_parse(j.rules.v[i]))])
                 \o <<")">>
         /\ \A i \in DOMAIN j.rules.v : GroupRuleExplained(j.rules.v[i])
RECURSIVE LogicalGroupExplained(_)
\* the same for the explanation of a FilterParser tree, whose leaf shows its
\* field and the class of its operator
LogicalGroupExplained(j) ==
    LET s == FilterRule_explain(FilterParser_parse(j)) IN
    IF IsLeafJson(j)
    THEN /\ Contains(s, <<"f", "i", "e", "l", "d", "=">> \o PyRepr(Str(<<j.field>>)))
         /\ Contains(s, ClassName(OPERATOR_MAP(Upper(j.operator.v))) \o <<"(">>)
    ELSE /\ s = Upper(j.combinator.v) \o <<"G", "r", "o", "u", "p", "(">>
                 \o Join([i \in DOMAIN j.rules.v |-> FilterRule_explain(FilterParser_parse(j.rules.v[i]))])
                 \o <<")">>
         /\ \A i \in DOMAIN j.rules.v : LogicalGroupExplained(j.rules.v[i])

\* C24: the explanation of the tree parsed from a well-formed JSON filter has
\* the nesting of the JSON: a group names its combinator and holds the
\* explanations of its children in the order given, a leaf names its field
\* and its operator, and the explanation of a second parse is the same text.
C24_ExplainFollowsJson ==
    /\ (call.name = "FilterExpression.explain" /\ WellFormedJson(json)) =>
          /\ ret = Str(FilterNode_explain(from_json_parse(json)))
          /\ GroupRuleExplained(json)
    /\ (call.name = "BaseFilterRule.explain" /\ WellFormedJson(json)) =>
          /\ ret = Str(FilterRule_explain(FilterParser_parse(json)))
          /\ LogicalGroupExplained(json)
C24_Witness ==
    /\ call.name = "BaseFilterRule.explain"
    /\ json = Group(S_OR, <<Leaf("c", S_IN, Lst(<<Num(1)>>)),
                            Group(S_AND, <<Leaf("a", S_LIKE, Str(<<"x">>)), Leaf("c", <<"=">>, Num(1))>>)>>)
    /\ ret = Str(<<"O", "R", "G", "r", "o", "u", "p", "(", "I", "n", "F", "i", "l", "t", "e", "r", "(", "f", "i", "e", "l", "d", "=", "'", "c", "'", ",", " ", "v", "a", "l", "u", "e", "s", "=", "(", "1", ",", ")", ")", ",", " ", "A", "N", "D", "G", "r", "o", "u", "p", "(", "L", "i", "k", "e", "F", "i", "l", "t", "e", "r", "(", "f", "i", "e", "l", "d", "=", "'", "a", "'", ")", ",", " ", "E", "q", "u", "a", "l", "s", "F", "i", "l", "t", "e", "r", "(", "f", "i", "e", "l", "d", "=", "'", "c", "'", ")", ")", ")">>)

\* C22: no call changes what it was given: the dataset, the JSON and the
\* rule arguments stay as they are, a tree once parsed stays equal to itself
\* (also across a second parse), and the same call made again returns an
\* equal result.
C22_InputsUnchanged ==
    [][ /\ dataset' = dataset
        /\ json' = json
        /\ rules' = rules
        /\ fexpr # NotBuilt => fexpr' = fexpr
        /\ ftree # NotBuilt => ftree' = ftree
        /\ call' = call => ret' = ret ]_vars
C22_Witness ==
    /\ call = CalledWith("QueryBuilder.generate_sql", FALSE)
    /\ ~IsErr(ret)
    /\ Built(ftree)
    /\ IsGroupJson(json) /\ Len(json.rules.v) = 2
    /\ Len(rules) = 2

CompileCalls == {"FilterExpression.expression", "BaseFilterRule.expression"}
\* C23: a tree once built does not depend on the lists of the caller's JSON:
\* whatever the caller does to them in between, compiling the same tree again
\* gives the predicate it gave before.
C23_CompileUnaffected ==
    [][ (call'.name \in CompileCalls /\ call' = call) => ret' = ret ]_vars

Terminal == {"COMPLETED", "FAILED", "CANCELLED"}
PollEnded == pc \in {"polled", "done"} /\ outcome.tag # "none"
\* the fetch that ended the poll failed: the remote service gave no message
FetchFailed == outcome.tag = "raised" /\ outcome.raised.detail \in {"upstream", "response"}
\* C29: poll_message_status ends, after at most MAX_POLLING_ATTEMPTS
\* fetches; every fetch of a message that is not terminal is followed by one
\* sleep; the first message fetched with status COMPLETED, FAILED or
\* CANCELLED is returned with no fetch or sleep after it; with no such
\* message the poll ends in the polling timeout after exactly
\* MAX_POLLING_ATTEMPTS fetches.
C29_PollTerminates ==
    /\ [](fetches <= MAX_POLLING_ATTEMPTS)
    /\ [](pc = "fetch" => sleeps = fetches)
    /\ []((PollEnded /\ message.status \in Terminal) =>
              /\ outcome = Returned(message)
              /\ sleeps = fetches - 1)
    /\ []((PollEnded /\ message.status \notin Terminal /\ ~FetchFailed) =>
              /\ outcome = Raised(HTTPException(408, "Polling timeout"))
              /\ fetches = MAX_POLLING_ATTEMPTS
              /\ sleeps = MAX_POLLING_ATTEMPTS)
    /\ <>(pc = "done")

====
